---- MODULE Spec2Model ----
(***************************************************************************)
(* A model of plugins/wasm-go/pkg/wrapper/plugin_wrapper.go: the plugin    *)
(* start / tick scheduler of CommonPluginCtx, the per-exchange dispatch of *)
(* CommonHttpCtx and the user-attribute export to the host's properties.   *)
(***************************************************************************)
EXTENDS Integers, Sequences, FiniteSets, TLC

\* ------------------------------------------------------------------ bounds
\* Most body-available signals the host delivers during one exchange, both
\* directions together.
MaxChunks == 2
\* Most context operations (DontRead*Body, Buffer*Body) the user callbacks of one
\* exchange make, all callbacks together.
MaxOps == 1
\* Most tick signals the host delivers, all plugin instances together.
MaxTicks == 6
\* Most RegisteTickFunc calls made, all parses and callers together.
MaxEntries == 2
\* Most tick signals the host delivers where callbacks may take time, all plugin
\* instances together.
MaxTimedTicks == 4
\* Most tick signals the host delivers while two exchanges are followed.
MaxSharedTicks == 1
\* Most body chunks of an exchange while two exchanges are followed.
MaxSharedChunks == 1

\* ------------------------------------------------------- values and inputs
Nil == "nil"
\* The configurations the rule matcher can resolve (*PluginConfig values).
Configs == {"R"}
\* types.ActionContinue / types.ActionPause
ActionContinue == "continue"
ActionPause == "pause"
Actions == {ActionContinue, ActionPause}
\* The context ids the exchange specification follows.
ExchangeIds == {1}

\* The body chunks the k-th body-available signal of an exchange can carry: no
\* byte, or one new byte that no other signal carries (the handlers never look
\* into the bytes, so distinct bytes show any loss, repetition or reordering).
Chunks(k) == {<<>>, <<k>>}

Min(a, b) == IF a < b THEN a ELSE b
Max(a, b) == IF a > b THEN a ELSE b

\* The pairs of an empty Go map: a function from keys to values with no key.
EmptyMap == [k \in {} |-> k]

VARIABLES
    vm,        \* CommonVmCtx: which optional hooks are registered (non-nil)
    http,      \* context id -> CommonHttpCtx, the live exchange contexts
    host,      \* context id -> the host's side of the exchange (phase, body buffer)
    obs,       \* context id -> what has been observed of the exchange so far
    last,      \* the signal handled last: its inputs, the callback it invoked, its result
    props,     \* context id -> the host's properties of the exchange (path -> value)
    globalOnTickFuncs,  \* the process-wide staging slice of tick entries
    tickFuncs, \* how many tick callbacks RegisteTickFunc was handed so far
    plugin,    \* plugin context id -> CommonPluginCtx and what the host did with it
    export     \* the attribute export handled last: its inputs and its outcome

exVars == <<vm, http, host, obs, last, props>>
plVars == <<globalOnTickFuncs, tickFuncs, plugin>>

\* --------------------------------------------------------------- CommonVmCtx
HookNames == {"onHttpRequestHeaders", "onHttpRequestBody", "onHttpStreamingRequestBody",
              "onHttpResponseHeaders", "onHttpResponseBody", "onHttpStreamingResponseBody",
              "onHttpStreamDone"}

\* Every registration the options of NewCommonVmCtx can leave: each hook nil or not.
VmCtxs == [HookNames -> BOOLEAN]

\* ------------------------------------------------------------- CommonHttpCtx
\* NewHttpContext: the flags derived from the registered hooks, config nil.
NewHttpCtx(v) ==
    [config                |-> Nil,
     needRequestBody       |-> v.onHttpRequestBody \/ v.onHttpStreamingRequestBody,
     needResponseBody      |-> v.onHttpResponseBody \/ v.onHttpStreamingResponseBody,
     streamingRequestBody  |-> v.onHttpStreamingRequestBody,
     streamingResponseBody |-> v.onHttpStreamingResponseBody,
     requestBodySize       |-> 0,
     responseBodySize      |-> 0,
     userContext           |-> EmptyMap,
     userAttribute         |-> EmptyMap]

DontReadRequestBody(c) == [c EXCEPT !.needRequestBody = FALSE]
DontReadResponseBody(c) == [c EXCEPT !.needResponseBody = FALSE]
\* The operation dropping the configuration as well.
BufferRequestBodyConfigCleared(c) == [c EXCEPT !.streamingRequestBody = FALSE, !.config = Nil]
BufferRequestBody(c) == [c EXCEPT !.streamingRequestBody = FALSE]
\* The operation flipping the flag instead of clearing it.
BufferResponseBodyToggled(c) == [c EXCEPT !.streamingResponseBody = ~@]
BufferResponseBody(c) == [c EXCEPT !.streamingResponseBody = FALSE]

\* What a user callback may do to the context it is handed (one call per invocation).
CtxOps == {"none", "DontReadRequestBody", "DontReadResponseBody",
           "BufferRequestBody", "BufferResponseBody"}

ApplyOp(c, op) ==
    CASE op = "DontReadRequestBody" -> DontReadRequestBody(c)
      [] op = "DontReadResponseBody" -> DontReadResponseBody(c)
      [] op = "BufferRequestBody" -> BufferRequestBody(c)
      [] op = "BufferResponseBody" -> BufferResponseBody(c)
      [] OTHER -> c

\* ---------------------------------------------------------------- the host
\* proxywasm.GetHttpRequestBody(0, size) / GetHttpResponseBody(0, size) on the
\* host's body buffer: the first size bytes of it, or an error.
GetHttpBody(buf, size, ok) ==
    IF ok THEN [err |-> FALSE, data |-> SubSeq(buf, 1, Min(size, Len(buf)))]
    ELSE [err |-> TRUE, data |-> <<>>]

\* proxywasm.ReplaceHttpRequestBody(data) / ReplaceHttpResponseBody(data): the
\* buffer the host forwards afterwards.
ReplaceHttpBody(buf, data, ok) == IF ok THEN data ELSE buf

\* The buffer the host shows on a body-available signal: what it kept while the
\* previous signal of the direction answered pause, then the new chunk.
HostBuffer(h, chunk) == (IF h.buffering THEN h.buf ELSE <<>>) \o chunk

\* What a streaming callback gives back for the chunk it is handed.
StreamEdits == {"same", "mark"}
StreamingReturn(edit, chunk) == IF edit = "same" THEN chunk ELSE <<0>> \o chunk

\* The record of one callback invocation: which hook, the configuration, body
\* bytes and end-of-stream flag it was handed, the bytes and the action it returned.
NoCall ==
    [cb |-> "none", cfg |-> Nil, body |-> <<>>, eos |-> FALSE, out |-> <<>>,
     act |-> ActionContinue]
Call(hook, cfg, body, eos, out, act) ==
    [cb |-> hook, cfg |-> cfg, body |-> body, eos |-> eos, out |-> out, act |-> act]

\* The outcomes of plugin.GetMatchConfig(): a configuration, no match, an error.
NoMatch == [cfg |-> Nil, err |-> FALSE]
MatchError == [cfg |-> Nil, err |-> TRUE]
MatchResults == {[cfg |-> r, err |-> FALSE] : r \in Configs} \cup {NoMatch, MatchError}

\* The result of a handler: the context afterwards, the action returned to the
\* host, the callback invoked (NoCall when none), the branch taken, the body
\* buffer the host holds afterwards, and the outcome of the host's body fetch and
\* body replace ("none" when the handler did not make the call).
ResultH(c, ret, call, path, fwd, fetch, replace) ==
    [ctx |-> c, ret |-> ret, call |-> call, path |-> path, fwd |-> fwd,
     fetch |-> fetch, replace |-> replace]
Result(c, ret, call, path, fwd) == ResultH(c, ret, call, path, fwd, "none", "none")
Outcome(ok) == IF ok THEN "ok" ELSE "failed"

\* ------------------------------------------------- the handlers of CommonHttpCtx
\* The response guard left out.
ResponseBinaryGuardOff(c, bin) == c
\* The binary guard of the header handlers (lines 532-534 / 578-580).
RequestBinaryGuard(c, bin) == IF bin THEN [c EXCEPT !.needRequestBody = FALSE] ELSE c
ResponseBinaryGuard(c, bin) == IF bin THEN [c EXCEPT !.needResponseBody = FALSE] ELSE c

\* The handler answering continue whatever the callback returned.
RequestHeadersResultAlwaysContinue(c, v, m, bin, act, op) ==
    IF m.err THEN Result(c, ActionContinue, NoCall, "error", <<>>)
    ELSE IF m.cfg = Nil THEN Result(c, ActionContinue, NoCall, "nomatch", <<>>)
    ELSE LET c1 == [c EXCEPT !.config = m.cfg]
             c2 == RequestBinaryGuard(c1, bin)
         IN IF ~v.onHttpRequestHeaders
            THEN Result(c2, ActionContinue, NoCall, "match", <<>>)
            ELSE Result(ApplyOp(c2, op), ActionContinue,
                        Call("onHttpRequestHeaders", m.cfg, <<>>, FALSE, <<>>, act), "match", <<>>)
\* OnHttpRequestHeaders: m is what GetMatchConfig returns, bin what
\* IsBinaryRequestBody returns; act and op are what the header callback does.
RequestHeadersResult(c, v, m, bin, act, op) ==
    IF m.err THEN Result(c, ActionContinue, NoCall, "error", <<>>)
    ELSE IF m.cfg = Nil THEN Result(c, ActionContinue, NoCall, "nomatch", <<>>)
    ELSE LET c1 == [c EXCEPT !.config = m.cfg]
             c2 == RequestBinaryGuard(c1, bin)
         IN IF ~v.onHttpRequestHeaders
            THEN Result(c2, ActionContinue, NoCall, "match", <<>>)
            ELSE Result(ApplyOp(c2, op), act,
                        Call("onHttpRequestHeaders", m.cfg, <<>>, FALSE, <<>>, act), "match", <<>>)

\* The count overwritten instead of accumulated.
RequestBodySizeLastOnly(c, bodySize) == bodySize
\* The running byte count of the whole-body path (line 559 / 605).
RequestBodySizeAfter(c, bodySize) == c.requestBodySize + bodySize
ResponseBodySizeAfter(c, bodySize) == c.responseBodySize + bodySize

\* The branches without the check for an absent configuration.
RequestBodyPathConfigUnchecked(c, v) ==
    IF ~c.needRequestBody THEN "noneed"
    ELSE IF v.onHttpStreamingRequestBody /\ c.streamingRequestBody THEN "streaming"
    ELSE IF v.onHttpRequestBody THEN "whole"
    ELSE "nohook"
\* The branch OnHttpRequestBody takes (lines 542, 545, 548, 558, 570).
RequestBodyPath(c, v) ==
    IF c.config = Nil THEN "unmatched"
    ELSE IF ~c.needRequestBody THEN "noneed"
    ELSE IF v.onHttpStreamingRequestBody /\ c.streamingRequestBody THEN "streaming"
    ELSE IF v.onHttpRequestBody THEN "whole"
    ELSE "nohook"

\* The handler counting the bytes of streamed chunks as well.
RequestBodyResultCountingStreamed(c, v, buf, bodySize, endOfStream, fetchOk, replaceOk, edit, act, op) ==
    IF RequestBodyPath(c, v) \in {"unmatched", "noneed", "nohook"}
    THEN Result(c, ActionContinue, NoCall, RequestBodyPath(c, v), buf)
    ELSE LET c1 == [c EXCEPT !.requestBodySize = RequestBodySizeAfter(c, bodySize)]
         IN IF RequestBodyPath(c, v) = "streaming"
            THEN LET chunk == GetHttpBody(buf, bodySize, fetchOk).data
                     modifiedChunk == StreamingReturn(edit, chunk)
                 IN ResultH(ApplyOp(c1, op), ActionContinue,
                            Call("onHttpStreamingRequestBody", c.config, chunk, endOfStream,
                                 modifiedChunk, ActionContinue),
                            "streaming", ReplaceHttpBody(buf, modifiedChunk, replaceOk),
                            Outcome(fetchOk), Outcome(replaceOk))
            ELSE LET body == GetHttpBody(buf, c1.requestBodySize, fetchOk)
                 IN IF ~endOfStream THEN Result(c1, ActionPause, NoCall, "whole", buf)
                    ELSE IF body.err
                    THEN ResultH(c1, ActionContinue, NoCall, "whole", buf, "failed", "none")
                    ELSE ResultH(ApplyOp(c1, op), act,
                                 Call("onHttpRequestBody", c.config, body.data, TRUE, <<>>, act),
                                 "whole", buf, "ok", "none")
\* OnHttpRequestBody(bodySize, endOfStream) with the host's buffer buf; fetchOk and
\* replaceOk are the outcomes of the host calls, edit/act/op what the callback does.
RequestBodyResult(c, v, buf, bodySize, endOfStream, fetchOk, replaceOk, edit, act, op) ==
    IF RequestBodyPath(c, v) \in {"unmatched", "noneed", "nohook"}
    THEN Result(c, ActionContinue, NoCall, RequestBodyPath(c, v), buf)
    ELSE IF RequestBodyPath(c, v) = "streaming"
    THEN LET chunk == GetHttpBody(buf, bodySize, fetchOk).data
             modifiedChunk == StreamingReturn(edit, chunk)
         IN ResultH(ApplyOp(c, op), ActionContinue,
                    Call("onHttpStreamingRequestBody", c.config, chunk, endOfStream, modifiedChunk,
                         ActionContinue),
                    "streaming", ReplaceHttpBody(buf, modifiedChunk, replaceOk),
                    Outcome(fetchOk), Outcome(replaceOk))
    ELSE LET c1 == [c EXCEPT !.requestBodySize = RequestBodySizeAfter(c, bodySize)]
             body == GetHttpBody(buf, c1.requestBodySize, fetchOk)
         IN IF ~endOfStream THEN Result(c1, ActionPause, NoCall, "whole", buf)
            ELSE IF body.err
            THEN ResultH(c1, ActionContinue, NoCall, "whole", buf, "failed", "none")
            ELSE ResultH(ApplyOp(c1, op), act,
                         Call("onHttpRequestBody", c.config, body.data, TRUE, <<>>, act), "whole", buf,
                         "ok", "none")

\* OnHttpResponseHeaders: no matching; bin is what IsBinaryResponseBody returns.
ResponseHeadersResult(c, v, bin, act, op) ==
    IF c.config = Nil THEN Result(c, ActionContinue, NoCall, "unmatched", <<>>)
    ELSE LET c2 == ResponseBinaryGuard(c, bin)
         IN IF ~v.onHttpResponseHeaders
            THEN Result(c2, ActionContinue, NoCall, "match", <<>>)
            ELSE Result(ApplyOp(c2, op), act,
                        Call("onHttpResponseHeaders", c.config, <<>>, FALSE, <<>>, act), "match", <<>>)

\* The branches with the whole-body callback tried first.
ResponseBodyPathWholeFirst(c, v) ==
    IF c.config = Nil THEN "unmatched"
    ELSE IF ~c.needResponseBody THEN "noneed"
    ELSE IF v.onHttpResponseBody THEN "whole"
    ELSE IF v.onHttpStreamingResponseBody /\ c.streamingResponseBody THEN "streaming"
    ELSE "nohook"
\* The branch OnHttpResponseBody takes (lines 588, 591, 594, 604, 616).
ResponseBodyPath(c, v) ==
    IF c.config = Nil THEN "unmatched"
    ELSE IF ~c.needResponseBody THEN "noneed"
    ELSE IF v.onHttpStreamingResponseBody /\ c.streamingResponseBody THEN "streaming"
    ELSE IF v.onHttpResponseBody THEN "whole"
    ELSE "nohook"

\* The handler answering continue before end-of-stream on the whole-body path.
ResponseBodyResultNeverPausing(c, v, buf, bodySize, endOfStream, fetchOk, replaceOk, edit, act, op) ==
    IF ResponseBodyPath(c, v) \in {"unmatched", "noneed", "nohook"}
    THEN Result(c, ActionContinue, NoCall, ResponseBodyPath(c, v), buf)
    ELSE IF ResponseBodyPath(c, v) = "streaming"
    THEN LET chunk == GetHttpBody(buf, bodySize, fetchOk).data
             modifiedChunk == StreamingReturn(edit, chunk)
         IN ResultH(ApplyOp(c, op), ActionContinue,
                    Call("onHttpStreamingResponseBody", c.config, chunk, endOfStream, modifiedChunk,
                         ActionContinue),
                    "streaming", ReplaceHttpBody(buf, modifiedChunk, replaceOk),
                    Outcome(fetchOk), Outcome(replaceOk))
    ELSE LET c1 == [c EXCEPT !.responseBodySize = ResponseBodySizeAfter(c, bodySize)]
             body == GetHttpBody(buf, c1.responseBodySize, fetchOk)
         IN IF ~endOfStream THEN Result(c1, ActionContinue, NoCall, "whole", buf)
            ELSE IF body.err
            THEN ResultH(c1, ActionContinue, NoCall, "whole", buf, "failed", "none")
            ELSE ResultH(ApplyOp(c1, op), act,
                         Call("onHttpResponseBody", c.config, body.data, TRUE, <<>>, act), "whole", buf,
                         "ok", "none")
\* OnHttpResponseBody(bodySize, endOfStream).
ResponseBodyResult(c, v, buf, bodySize, endOfStream, fetchOk, replaceOk, edit, act, op) ==
    IF ResponseBodyPath(c, v) \in {"unmatched", "noneed", "nohook"}
    THEN Result(c, ActionContinue, NoCall, ResponseBodyPath(c, v), buf)
    ELSE IF ResponseBodyPath(c, v) = "streaming"
    THEN LET chunk == GetHttpBody(buf, bodySize, fetchOk).data
             modifiedChunk == StreamingReturn(edit, chunk)
         IN ResultH(ApplyOp(c, op), ActionContinue,
                    Call("onHttpStreamingResponseBody", c.config, chunk, endOfStream, modifiedChunk,
                         ActionContinue),
                    "streaming", ReplaceHttpBody(buf, modifiedChunk, replaceOk),
                    Outcome(fetchOk), Outcome(replaceOk))
    ELSE LET c1 == [c EXCEPT !.responseBodySize = ResponseBodySizeAfter(c, bodySize)]
             body == GetHttpBody(buf, c1.responseBodySize, fetchOk)
         IN IF ~endOfStream THEN Result(c1, ActionPause, NoCall, "whole", buf)
            ELSE IF body.err
            THEN ResultH(c1, ActionContinue, NoCall, "whole", buf, "failed", "none")
            ELSE ResultH(ApplyOp(c1, op), act,
                         Call("onHttpResponseBody", c.config, body.data, TRUE, <<>>, act), "whole", buf,
                         "ok", "none")

\* The handler without the check for an absent configuration.
StreamDoneResultConfigUnchecked(c, v, op) ==
    IF ~v.onHttpStreamDone THEN Result(c, ActionContinue, NoCall, "nohook", <<>>)
    ELSE Result(ApplyOp(c, op), ActionContinue,
                Call("onHttpStreamDone", c.config, <<>>, FALSE, <<>>, ActionContinue), "match", <<>>)
\* OnHttpStreamDone: the callback returns nothing.
StreamDoneResult(c, v, op) ==
    IF c.config = Nil THEN Result(c, ActionContinue, NoCall, "unmatched", <<>>)
    ELSE IF ~v.onHttpStreamDone THEN Result(c, ActionContinue, NoCall, "nohook", <<>>)
    ELSE Result(ApplyOp(c, op), ActionContinue,
                Call("onHttpStreamDone", c.config, <<>>, FALSE, <<>>, ActionContinue), "match", <<>>)

\* ------------------------------------------------------------ the exchange
\* The outcomes and callback behaviours a body-available signal can meet on a
\* branch: host outcomes and callback choices exist only where the call is made.
FetchOutcomes(path, endOfStream) ==
    IF path = "streaming" \/ (path = "whole" /\ endOfStream) THEN BOOLEAN ELSE {TRUE}
ReplaceOutcomes(path) == IF path = "streaming" THEN BOOLEAN ELSE {TRUE}
EditChoices(path) == IF path = "streaming" THEN StreamEdits ELSE {"same"}
\* IsBinaryRequestBody / IsBinaryResponseBody answer only when they are asked.
BinaryChoices(asked) == IF asked THEN BOOLEAN ELSE {FALSE}
ActChoices(called) == IF called THEN Actions ELSE {ActionContinue}
OpChoices(called, made) == IF called /\ made < MaxOps THEN CtxOps ELSE {"none"}
OpsMade(made, op) == IF op = "none" THEN made ELSE made + 1
BodyCalled(path, endOfStream, fetchOk) ==
    path = "streaming" \/ (path = "whole" /\ endOfStream /\ fetchOk)

\* The host's side of a new exchange: no signal delivered yet, nothing buffered.
NewHost == [phase |-> "created", buffering |-> FALSE, buf |-> <<>>, chunks |-> 0]
\* The host moves on to another phase: the body buffer of the phase left is gone.
HostAt(h, phase) == [NewHost EXCEPT !.phase = phase, !.chunks = h.chunks]

\* Nothing observed yet: the outcome of matching, whether each direction was
\* classified binary, per direction the bytes of the chunks handled on the
\* whole-body path (in arrival order) and whether every chunk so far was handled
\* there, how often each hook was invoked, how many context operations were made.
NewObs ==
    [match |-> "none", reqBinary |-> FALSE, respBinary |-> FALSE,
     reqWhole |-> <<>>, respWhole |-> <<>>, reqPure |-> TRUE, respPure |-> TRUE,
     calls |-> [h \in HookNames |-> 0], ops |-> 0]

NoSignal ==
    [e |-> 0, sig |-> "none", m |-> Nil, chunk |-> <<>>, eos |-> FALSE, ret |-> ActionContinue,
     call |-> NoCall, path |-> "none", fetch |-> "none", replace |-> "none",
     fwd |-> <<>>]

\* The record of a handled signal: the exchange, the handler, what the matcher
\* resolved (request headers only), the chunk and end-of-stream flag delivered,
\* and the handler's result.
Signal(e, sig, m, chunk, eos, r) ==
    [e |-> e, sig |-> sig, m |-> m, chunk |-> chunk, eos |-> eos, ret |-> r.ret, call |-> r.call,
     path |-> r.path, fetch |-> r.fetch, replace |-> r.replace, fwd |-> r.fwd]

Counted(calls, call) ==
    IF call.cb = "none" THEN calls ELSE [calls EXCEPT ![call.cb] = @ + 1]

\* The values of the x-request-id request header.
RequestIds == {<<"r">>}
\* The keys user code sets attributes under, as texts (sequences of characters),
\* and a text as a Go string.
AttrKeys == {<<"a">>, <<"b">>}
RECURSIVE GoString(_)
GoString(chars) == IF chars = <<>> THEN "" ELSE Head(chars) \o GoString(Tail(chars))
TraceSpanTagPrefix == "trace_span_tag."
PropKeys ==
    {"x_request_id", "custom_log", "ai_log"} \cup {TraceSpanTagPrefix \o GoString(k) : k \in AttrKeys}
NoProps == [k \in PropKeys |-> <<>>]

\* proxywasm.SetProperty([]string{key}, value)
SetProperty(p, key, value) == [p EXCEPT ![key] = value]

InitExchange ==
    /\ vm \in VmCtxs
    /\ http = <<>>
    /\ host = <<>>
    /\ obs = <<>>
    /\ last = NoSignal
    /\ props = [e \in ExchangeIds |-> NoProps]

\* CommonPluginCtx.NewHttpContext(contextID)
NewHttpContext(e) ==
    /\ e \notin DOMAIN http
    /\ http' = (e :> NewHttpCtx(vm)) @@ http
    /\ host' = (e :> NewHost) @@ host
    /\ obs' = (e :> NewObs) @@ obs
    /\ last' = [NoSignal EXCEPT !.e = e, !.sig = "NewHttpContext"]
    /\ UNCHANGED <<vm, props, plVars, export>>

OnHttpRequestHeaders(e) ==
    /\ e \in DOMAIN http
    /\ host[e].phase = "created"
    /\ \E m \in MatchResults, requestID \in RequestIds :
       \E bin \in BinaryChoices(m.cfg # Nil),
          act \in ActChoices(vm.onHttpRequestHeaders /\ m.cfg # Nil),
          op \in OpChoices(vm.onHttpRequestHeaders /\ m.cfg # Nil, obs[e].ops) :
          \E r \in {RequestHeadersResult(http[e], vm, m, bin, act, op)} :
             /\ http' = [http EXCEPT ![e] = r.ctx]
             /\ props' = [props EXCEPT ![e] = SetProperty(@, "x_request_id", requestID)]
             /\ host' = [host EXCEPT ![e].phase = "request"]
             /\ obs' = [obs EXCEPT ![e].match = r.path,
                                   ![e].reqBinary = bin,
                                   ![e].calls = Counted(@, r.call),
                                   ![e].ops = OpsMade(@, op)]
             /\ last' = Signal(e, "OnHttpRequestHeaders", m.cfg, <<>>, FALSE, r)
    /\ UNCHANGED <<vm, plVars, export>>

\* What the host does with its buffer once the handler answered: it keeps the
\* buffer while paused and forwards it otherwise.
HostAfterBody(h, r, endOfStream, donePhase) ==
    [phase |-> IF endOfStream THEN donePhase ELSE h.phase,
     buffering |-> r.ret = ActionPause,
     buf |-> IF r.ret = ActionPause THEN r.fwd ELSE <<>>,
     chunks |-> h.chunks + 1]

OnHttpRequestBody(e) ==
    /\ e \in DOMAIN http
    /\ host[e].phase = "request"
    /\ host[e].chunks < MaxChunks
    /\ \E chunk \in Chunks(host[e].chunks + 1), endOfStream \in BOOLEAN :
       \E fetchOk \in FetchOutcomes(RequestBodyPath(http[e], vm), endOfStream),
          replaceOk \in ReplaceOutcomes(RequestBodyPath(http[e], vm)),
          edit \in EditChoices(RequestBodyPath(http[e], vm)) :
       \E act \in ActChoices(BodyCalled(RequestBodyPath(http[e], vm), endOfStream, fetchOk)),
          op \in OpChoices(BodyCalled(RequestBodyPath(http[e], vm), endOfStream, fetchOk),
                        obs[e].ops) :
          \E r \in {RequestBodyResult(http[e], vm, HostBuffer(host[e], chunk), Len(chunk), endOfStream,
                                     fetchOk, replaceOk, edit, act, op)} :
             /\ http' = [http EXCEPT ![e] = r.ctx]
             /\ host' = [host EXCEPT ![e] = HostAfterBody(@, r, endOfStream, "requestEnd")]
             /\ obs' = [obs EXCEPT ![e].reqPure = @ /\ r.path = "whole",
                                   ![e].reqWhole = IF r.path = "whole" THEN @ \o chunk ELSE @,
                                   ![e].calls = Counted(@, r.call),
                                   ![e].ops = OpsMade(@, op)]
             /\ last' = Signal(e, "OnHttpRequestBody", Nil, chunk, endOfStream, r)
    /\ UNCHANGED <<vm, props, plVars, export>>

OnHttpResponseHeaders(e) ==
    /\ e \in DOMAIN http
    /\ host[e].phase \in {"request", "requestEnd"}
    /\ \E bin \in BinaryChoices(http[e].config # Nil),
          act \in ActChoices(vm.onHttpResponseHeaders /\ http[e].config # Nil),
          op \in OpChoices(vm.onHttpResponseHeaders /\ http[e].config # Nil, obs[e].ops) :
          \E r \in {ResponseHeadersResult(http[e], vm, bin, act, op)} :
             /\ http' = [http EXCEPT ![e] = r.ctx]
             /\ host' = [host EXCEPT ![e] = HostAt(@, "response")]
             /\ obs' = [obs EXCEPT ![e].respBinary = bin,
                                   ![e].calls = Counted(@, r.call),
                                   ![e].ops = OpsMade(@, op)]
             /\ last' = Signal(e, "OnHttpResponseHeaders", Nil, <<>>, FALSE, r)
    /\ UNCHANGED <<vm, props, plVars, export>>

OnHttpResponseBody(e) ==
    /\ e \in DOMAIN http
    /\ host[e].phase = "response"
    /\ host[e].chunks < MaxChunks
    /\ \E chunk \in Chunks(host[e].chunks + 1), endOfStream \in BOOLEAN :
       \E fetchOk \in FetchOutcomes(ResponseBodyPath(http[e], vm), endOfStream),
          replaceOk \in ReplaceOutcomes(ResponseBodyPath(http[e], vm)),
          edit \in EditChoices(ResponseBodyPath(http[e], vm)) :
       \E act \in ActChoices(BodyCalled(ResponseBodyPath(http[e], vm), endOfStream, fetchOk)),
          op \in OpChoices(BodyCalled(ResponseBodyPath(http[e], vm), endOfStream, fetchOk),
                        obs[e].ops) :
          \E r \in {ResponseBodyResult(http[e], vm, HostBuffer(host[e], chunk), Len(chunk), endOfStream,
                                      fetchOk, replaceOk, edit, act, op)} :
             /\ http' = [http EXCEPT ![e] = r.ctx]
             /\ host' = [host EXCEPT ![e] = HostAfterBody(@, r, endOfStream, "responseEnd")]
             /\ obs' = [obs EXCEPT ![e].respPure = @ /\ r.path = "whole",
                                   ![e].respWhole = IF r.path = "whole" THEN @ \o chunk ELSE @,
                                   ![e].calls = Counted(@, r.call),
                                   ![e].ops = OpsMade(@, op)]
             /\ last' = Signal(e, "OnHttpResponseBody", Nil, chunk, endOfStream, r)
    /\ UNCHANGED <<vm, props, plVars, export>>

OnHttpStreamDone(e) ==
    /\ e \in DOMAIN http
    /\ host[e].phase # "done"
    /\ \E op \in OpChoices(vm.onHttpStreamDone /\ http[e].config # Nil, obs[e].ops) :
          \E r \in {StreamDoneResult(http[e], vm, op)} :
             /\ http' = [http EXCEPT ![e] = r.ctx]
             /\ host' = [host EXCEPT ![e] = HostAt(@, "done")]
             /\ obs' = [obs EXCEPT ![e].calls = Counted(@, r.call),
                                   ![e].ops = OpsMade(@, op)]
             /\ last' = Signal(e, "OnHttpStreamDone", Nil, <<>>, FALSE, r)
    /\ UNCHANGED <<vm, props, plVars, export>>

Next ==
    \E e \in ExchangeIds :
        \/ NewHttpContext(e)
        \/ OnHttpRequestHeaders(e)
        \/ OnHttpRequestBody(e)
        \/ OnHttpResponseHeaders(e)
        \/ OnHttpResponseBody(e)
        \/ OnHttpStreamDone(e)

\* ------------------------------------------- plugin start and the tick scheduler
\* The plugin contexts the plugin specification follows.
PluginIds == {1, 2}
\* The period OnPluginStart arms the host timer with, in milliseconds.
TickGranularity == 100
\* The tick periods user code registers, in milliseconds: below the granularity,
\* the granularity, and multiples of it.
Periods == {50, 100, 200, 300}
\* What time.Now().UnixMilli() reads when a plugin starts. The readings are scaled
\* down from epoch milliseconds and stay far above every period, as the wall clock does.
StartTimes == {1000000, 1000050}
\* The raw plugin configurations of the host, with gjson.ValidBytes on them.
RawConfigs == {"", "{}", "{"}
ValidBytes(data) == data = "{}"
\* proxywasm.GetPluginConfiguration(): the bytes, none when the host has none
\* (types.ErrorStatusNotFound), or another error.
ConfigReads ==
    {[data |-> d, err |-> "none"] : d \in RawConfigs}
        \cup {[data |-> "", err |-> "NotFound"], [data |-> "", err |-> "other"]}

\* The sequences over S of length at most n.
RECURSIVE SeqsUpTo(_, _)
SeqsUpTo(S, n) ==
    IF n = 0 THEN {<<>>}
    ELSE SeqsUpTo(S, n - 1) \cup
         {Append(q, x) : q \in {t \in SeqsUpTo(S, n - 1) : Len(t) = n - 1}, x \in S}

\* The []TickFuncEntry staging variable: nil, or the entries it holds, and the
\* plugin context whose onTickFuncs has the same backing array (0 when none has).
NilSlice == [nil |-> TRUE, entries |-> <<>>, sharedWith |-> 0]
Slice(entries) == [nil |-> FALSE, entries |-> entries, sharedWith |-> 0]

\* The entry put in front of the staged ones.
RegisteTickFuncInFront(g, tickPeriod, tickFunc, inPlace) ==
    [nil |-> FALSE,
     entries |-> <<[lastExecuted |-> 0, tickPeriod |-> tickPeriod, tickFunc |-> tickFunc]>>
                    \o g.entries,
     sharedWith |-> IF inPlace THEN g.sharedWith ELSE 0]
\* RegisteTickFunc(tickPeriod, tickFunc) on the staging slice g (line 114).
\* append writes the entry behind the others in the backing array when its
\* capacity has room (inPlace), and otherwise into a new array, which no context
\* shares.
RegisteTickFunc(g, tickPeriod, tickFunc, inPlace) ==
    [nil |-> FALSE,
     entries |-> Append(g.entries,
                        [lastExecuted |-> 0, tickPeriod |-> tickPeriod, tickFunc |-> tickFunc]),
     sharedWith |-> IF inPlace THEN g.sharedWith ELSE 0]
\* Whether append has room is a matter of the capacity the build gave the array;
\* it shows only while a context shares the array.
InPlaceChoices(g) == IF g.sharedWith # 0 THEN BOOLEAN ELSE {FALSE}
\* ctx.onTickFuncs = globalOnTickFuncs (line 333): the slice header is copied, so
\* context p and the staging variable share one backing array from then on.
SharedBy(g, p) == [g EXCEPT !.sharedWith = p]
\* The staging variable after context p assigned entries to its onTickFuncs
\* elements (line 347): the same elements when it shares the backing array.
ThroughShared(g, p, entries) ==
    IF g.sharedWith # p THEN g
    ELSE [g EXCEPT !.entries = [i \in DOMAIN @ |-> IF i <= Len(entries) THEN entries[i] ELSE @[i]]]

\* The RegisteTickFunc calls the user's parsers make while ParseRuleConfig runs:
\* one per period of regs, the callbacks numbered from n + 1.
RECURSIVE StageAll(_, _, _)
StageAll(g, regs, n) ==
    IF regs = <<>> THEN g
    ELSE StageAll(RegisteTickFunc(g, Head(regs), n + 1, FALSE), Tail(regs), n + 1)

\* matcher.RuleMatcher.ParseRuleConfig with the user's parsers: the staging slice
\* afterwards and the error returned.
ParseRuleConfig(g, regs, n, buildErr) == [staging |-> StageAll(g, regs, n), err |-> buildErr]

\* CommonVmCtx.NewPluginContext: onTickFuncs nil; the host has delivered nothing.
NoStart ==
    [read |-> "none", data |-> "", built |-> "none", staged |-> 0, arm |-> "none",
     before |-> 0, regs |-> <<>>]
\* The tick handled last by a context: the clock reading at which each entry was
\* evaluated and the callbacks invoked, in order.
NoTick == [nows |-> <<>>, calls |-> <<>>]
NewPluginCtx ==
    [status |-> "new", onTickFuncs |-> <<>>, timer |-> 0, startedAt |-> 0, ticks |-> 0,
     busyUntil |-> 0, fired |-> <<>>, tick |-> NoTick, start |-> NoStart]

\* The staging slice left as it was.
StagingKept(g) == g
\* OnPluginStart clears the staging slice before anything else (line 297).
StagingReset(g) == NilSlice

\* The result of OnPluginStart: the status returned, the context's tick entries,
\* the staging slice, the timer period armed (0 when none), and what happened on
\* the way: the rule-set build and the arming, "none" when not attempted.
StartResult(status, onTickFuncs, staging, timer, built, arm) ==
    [status |-> status, onTickFuncs |-> onTickFuncs, staging |-> staging, timer |-> timer,
     built |-> built, arm |-> arm]

\* OnPluginStart of context c, whose id is p: cfg is what GetPluginConfiguration
\* returns, regs the periods the parsers register, n the callbacks registered
\* before, buildErr whether ParseRuleConfig fails, armOk whether
\* SetTickPeriodMilliSeconds succeeds.
OnPluginStartResult(p, c, g, cfg, regs, n, buildErr, armOk) ==
    LET g0 == StagingReset(g)
    IN IF cfg.err = "other"
       THEN StartResult("failed", c.onTickFuncs, g0, c.timer, "none", "none")
       ELSE IF cfg.data # "" /\ ~ValidBytes(cfg.data)
       THEN StartResult("failed", c.onTickFuncs, g0, c.timer, "none", "none")
       ELSE LET parsed == ParseRuleConfig(g0, regs, n, buildErr)
            IN IF parsed.err
               THEN StartResult("failed", c.onTickFuncs, parsed.staging, c.timer, "error", "none")
               ELSE IF parsed.staging.nil
               THEN StartResult("ok", c.onTickFuncs, parsed.staging, c.timer, "ok", "none")
               ELSE IF ~armOk
               THEN StartResult("failed", parsed.staging.entries, SharedBy(parsed.staging, p),
                                c.timer, "ok", "failed")
               ELSE StartResult("ok", parsed.staging.entries, SharedBy(parsed.staging, p),
                                TickGranularity, "ok", "ok")

\* The condition with a strict comparison.
TickDueStrict(entry, now) == now - entry.lastExecuted > entry.tickPeriod
\* The condition met one granularity late.
TickDueLate(entry, now) == now - entry.lastExecuted >= entry.tickPeriod + TickGranularity
\* The firing condition of OnTick (line 345).
TickDue(entry, now) == now - entry.lastExecuted >= entry.tickPeriod

\* How long an invoked tick callback runs, in milliseconds of the clock: less
\* than the clock resolves, or longer than the granularity leaves to an entry of
\* the smallest period.
CallbackTimes == {0, 60}

\* The loop of OnTick from entry i on: time.Now().UnixMilli() reads now for entry
\* i (line 344), and took[i] later for the next entry when entry i's callback ran.
\* The entries afterwards, the callbacks invoked in order, the reading made for
\* each entry, and the clock when the loop ends.
RECURSIVE TickLoop(_, _, _, _, _, _)
TickLoop(entries, i, now, took, calls, nows) ==
    IF i > Len(entries)
    THEN [onTickFuncs |-> entries, calls |-> calls, nows |-> nows, done |-> now]
    ELSE IF TickDue(entries[i], now)
    THEN TickLoop([entries EXCEPT ![i].lastExecuted = now], i + 1, now + took[i], took,
                  Append(calls, entries[i].tickFunc), Append(nows, now))
    ELSE TickLoop(entries, i + 1, now, took, calls, Append(nows, now))

\* How often callback f occurs in calls.
RECURSIVE Occurrences(_, _)
Occurrences(calls, f) ==
    IF calls = <<>> THEN 0
    ELSE (IF Head(calls) = f THEN 1 ELSE 0) + Occurrences(Tail(calls), f)

InitPlugin ==
    /\ globalOnTickFuncs = Slice(<<>>)
    /\ tickFuncs = 0
    /\ plugin = [p \in PluginIds |-> NewPluginCtx]

\* The inputs of a start that matter: the parsers run, and can fail, only when
\* the configuration was read and is empty or valid; the timer is armed only
\* when entries were staged.
ParseReached(cfg) == cfg.err # "other" /\ (cfg.data = "" \/ ValidBytes(cfg.data))
RegChoices(cfg, n) == IF ParseReached(cfg) THEN SeqsUpTo(Periods, MaxEntries - n) ELSE {<<>>}
BuildChoices(cfg) == IF ParseReached(cfg) THEN BOOLEAN ELSE {FALSE}
ArmChoices(cfg, regs, buildErr) ==
    IF ParseReached(cfg) /\ regs # <<>> /\ ~buildErr THEN BOOLEAN ELSE {TRUE}
ClockChoices(cfg, regs, buildErr, armOk) ==
    IF ParseReached(cfg) /\ regs # <<>> /\ ~buildErr /\ armOk THEN StartTimes ELSE {0}

RECURSIVE TotalTicks(_)
TotalTicks(ps) ==
    IF ps = {} THEN 0
    ELSE LET p == CHOOSE q \in ps : TRUE IN plugin[p].ticks + TotalTicks(ps \ {p})

\* A RegisteTickFunc call outside any OnPluginStart.
RegisteTickFuncCall ==
    /\ tickFuncs < MaxEntries
    /\ \E tickPeriod \in Periods, inPlace \in InPlaceChoices(globalOnTickFuncs) :
          globalOnTickFuncs' =
              RegisteTickFunc(globalOnTickFuncs, tickPeriod, tickFuncs + 1, inPlace)
    /\ tickFuncs' = tickFuncs + 1
    /\ UNCHANGED <<plugin, exVars, export>>

\* CommonPluginCtx.OnPluginStart, once per plugin context.
OnPluginStart(p) ==
    /\ plugin[p].status = "new"
    /\ \E cfg \in ConfigReads :
       \E regs \in RegChoices(cfg, tickFuncs), buildErr \in BuildChoices(cfg) :
       \E armOk \in ArmChoices(cfg, regs, buildErr) :
       \E now \in ClockChoices(cfg, regs, buildErr, armOk) :
       \E r \in {OnPluginStartResult(p, plugin[p], globalOnTickFuncs, cfg, regs, tickFuncs,
                                     buildErr, armOk)} :
          /\ plugin' = [plugin EXCEPT ![p] =
                 [status |-> r.status, onTickFuncs |-> r.onTickFuncs, timer |-> r.timer,
                  startedAt |-> now, ticks |-> 0, busyUntil |-> now,
                  fired |-> [i \in DOMAIN r.onTickFuncs |-> 0], tick |-> NoTick,
                  start |-> [read |-> cfg.err, data |-> cfg.data, built |-> r.built,
                             staged |-> Len(regs), arm |-> r.arm,
                             before |-> tickFuncs, regs |-> regs]]]
          /\ globalOnTickFuncs' = r.staging
          /\ tickFuncs' = tickFuncs + Len(regs)
    /\ UNCHANGED <<exVars, export>>

\* When the host delivers the next tick to context c: one timer period after the
\* previous one was due, or when the previous OnTick returned if that is later.
TickTime(c) == Max(c.startedAt + (c.ticks + 1) * c.timer, c.busyUntil)

\* CommonPluginCtx.OnTick where the callback of entry i runs for took[i] milliseconds.
OnTickTaking(p, took) ==
    /\ plugin[p].status = "ok"
    /\ plugin[p].timer > 0
    /\ TotalTicks(PluginIds) < MaxTicks
    /\ LET r == TickLoop(plugin[p].onTickFuncs, 1, TickTime(plugin[p]), took, <<>>, <<>>)
       IN /\ plugin' = [plugin EXCEPT
                 ![p].onTickFuncs = r.onTickFuncs,
                 ![p].ticks = @ + 1,
                 ![p].busyUntil = r.done,
                 ![p].tick = [nows |-> r.nows, calls |-> r.calls],
                 ![p].fired = [i \in DOMAIN @ |->
                                  @[i] + Occurrences(r.calls, plugin[p].onTickFuncs[i].tickFunc)]]
          /\ globalOnTickFuncs' = ThroughShared(globalOnTickFuncs, p, r.onTickFuncs)
    /\ UNCHANGED <<tickFuncs, exVars, export>>

\* CommonPluginCtx.OnTick: the host delivers the next tick of the armed timer, one
\* timer period after the previous one; the callbacks return within the same
\* clock reading.
OnTick(p) == OnTickTaking(p, [i \in DOMAIN plugin[p].onTickFuncs |-> 0])

\* CommonPluginCtx.OnTick with callbacks that take time or not.
OnTickTimed(p) ==
    /\ TotalTicks(PluginIds) < MaxTimedTicks
    /\ \E took \in [DOMAIN plugin[p].onTickFuncs -> CallbackTimes] : OnTickTaking(p, took)

NextPlugin ==
    \/ RegisteTickFuncCall
    \/ \E p \in PluginIds : OnPluginStart(p) \/ OnTick(p)

\* One plugin context of them, started and ticked with callbacks that take time.
TimedPluginIds == {CHOOSE p \in PluginIds : TRUE}
NextTimed == \E p \in TimedPluginIds : OnPluginStart(p) \/ OnTickTimed(p)

\* ---------------------------------------------------------- attribute export
\* Text is a sequence of characters. The two characters JSON escapes here:
Quote == "\""
Backslash == "\\"
NullText == <<"n", "u", "l", "l">>
Digits == {"0", "1", "2", "3", "4", "5", "6", "7", "8", "9"}

\* The values of the accumulator and of parsed objects: strings and numbers, a
\* number kept as the digits JSON writes for it.
Str(chars) == [kind |-> "string", v |-> chars]
Num(digits) == [kind |-> "number", v |-> digits]

\* The text of a string between its quotes: a quote and a backslash escaped.
RECURSIVE EscapeStr(_)
EscapeStr(chars) ==
    IF chars = <<>> THEN <<>>
    ELSE (IF Head(chars) \in {Quote, Backslash} THEN <<Backslash, Head(chars)>>
          ELSE <<Head(chars)>>) \o EscapeStr(Tail(chars))

\* Reading a string whose opening quote is before position i of t: the
\* characters up to the closing quote and the position after it, or a failure.
ScanFailed == [ok |-> FALSE, v |-> <<>>, next |-> 0]
RECURSIVE ScanString(_, _, _)
ScanString(t, i, acc) ==
    IF i > Len(t) THEN ScanFailed
    ELSE IF t[i] = Quote THEN [ok |-> TRUE, v |-> acc, next |-> i + 1]
    ELSE IF t[i] = Backslash
    THEN IF i + 1 <= Len(t) /\ t[i + 1] \in {Quote, Backslash}
         THEN ScanString(t, i + 2, Append(acc, t[i + 1]))
         ELSE ScanFailed
    ELSE ScanString(t, i + 1, Append(acc, t[i]))

\* Reading a number from position i of t: its digits, no leading zero.
RECURSIVE ScanDigits(_, _, _)
ScanDigits(t, i, acc) ==
    IF i <= Len(t) /\ t[i] \in Digits THEN ScanDigits(t, i + 1, Append(acc, t[i]))
    ELSE IF acc = <<>> \/ (Len(acc) > 1 /\ acc[1] = "0") THEN ScanFailed
    ELSE [ok |-> TRUE, v |-> acc, next |-> i]

\* marshalStr(raw): raw as the inside of a JSON string literal.
marshalStr(raw) == EscapeStr(raw)

\* unmarshalStr(`"` + s + `"`): the string the literal denotes, "" when the
\* text is not one string literal.
unmarshalStr(quoted) ==
    LET r == ScanString(quoted, 2, <<>>)
    IN IF Len(quoted) >= 2 /\ quoted[1] = Quote /\ r.ok /\ r.next = Len(quoted) + 1
       THEN r.v ELSE <<>>

\* The characters of the model in byte order, for sorting keys as json.Marshal does.
Alphabet == <<Quote, ",", "0", "1", "2", "3", "4", "5", "6", "7", "8", "9", ":",
              Backslash, "a", "b", "l", "n", "u", "x", "{", "}">>
Rank(ch) == CHOOSE i \in 1..Len(Alphabet) : Alphabet[i] = ch
RECURSIVE TextLess(_, _)
TextLess(a, b) ==
    IF a = <<>> THEN b # <<>>
    ELSE IF b = <<>> THEN FALSE
    ELSE IF Head(a) = Head(b) THEN TextLess(Tail(a), Tail(b))
    ELSE Rank(Head(a)) < Rank(Head(b))
MinKey(keys) == CHOOSE k \in keys : \A j \in keys \ {k} : TextLess(k, j)

\* A map[string]interface{} variable: nil, or the pairs it holds.
NilMap == [nil |-> TRUE, kv |-> EmptyMap]
MakeMap(kv) == [nil |-> FALSE, kv |-> kv]
Put(kv, k, v) == [x \in DOMAIN kv \cup {k} |-> IF x = k THEN v ELSE kv[x]]

\* json.Marshal of a value and of a map (keys sorted; the nil map is null).
MarshalValue(v) ==
    IF v.kind = "string" THEN <<Quote>> \o EscapeStr(v.v) \o <<Quote>> ELSE v.v
RECURSIVE MarshalMembers(_, _)
MarshalMembers(m, keys) ==
    IF keys = {} THEN <<>>
    ELSE LET k == MinKey(keys)
         IN <<Quote>> \o EscapeStr(k) \o <<Quote, ":">> \o MarshalValue(m[k])
                \o (IF keys = {k} THEN <<>> ELSE <<",">>)
                \o MarshalMembers(m, keys \ {k})
MarshalMap(m) ==
    IF m.nil THEN NullText ELSE <<"{">> \o MarshalMembers(m.kv, DOMAIN m.kv) \o <<"}">>

\* Reading the value at position i of t: a string or a number.
ParseValue(t, i) ==
    IF i > Len(t) THEN ScanFailed
    ELSE IF t[i] = Quote
    THEN LET r == ScanString(t, i + 1, <<>>)
         IN [ok |-> r.ok, v |-> Str(r.v), next |-> r.next]
    ELSE LET r == ScanDigits(t, i, <<>>)
         IN [ok |-> r.ok, v |-> Num(r.v), next |-> r.next]

\* Reading the members of an object from the key at position i of t into m.
UnmarshalFailed == [err |-> TRUE, map |-> MakeMap(EmptyMap)]
RECURSIVE ParseMembers(_, _, _)
ParseMembers(t, i, m) ==
    IF i > Len(t) \/ t[i] # Quote THEN UnmarshalFailed
    ELSE LET k == ScanString(t, i + 1, <<>>)
         IN IF ~k.ok \/ k.next > Len(t) \/ t[k.next] # ":" THEN UnmarshalFailed
            ELSE LET v == ParseValue(t, k.next + 1)
                 IN IF ~v.ok \/ v.next > Len(t) THEN UnmarshalFailed
                    ELSE IF t[v.next] = ","
                    THEN ParseMembers(t, v.next + 1, Put(m, k.v, v.v))
                    ELSE IF t[v.next] = "}" /\ v.next = Len(t)
                    THEN [err |-> FALSE, map |-> MakeMap(Put(m, k.v, v.v))]
                    ELSE UnmarshalFailed

\* json.Unmarshal(text, &m) for an empty map m: null makes m the nil map without
\* an error, an object fills m, anything else is an error.
JsonUnmarshalMap(t) ==
    IF t = NullText THEN [err |-> FALSE, map |-> NilMap]
    ELSE IF Len(t) < 2 \/ t[1] # "{" THEN UnmarshalFailed
    ELSE IF t[2] = "}" THEN (IF Len(t) = 2 THEN [err |-> FALSE, map |-> MakeMap(EmptyMap)]
                             ELSE UnmarshalFailed)
    ELSE ParseMembers(t, 2, EmptyMap)

OverlayResult(panic, m) == [panic |-> panic, map |-> m]
\* The loop keeping the value already in m on a collision.
OverlayPriorWins(m, userAttribute) ==
    IF DOMAIN userAttribute = {} THEN OverlayResult(FALSE, m)
    ELSE IF m.nil THEN OverlayResult(TRUE, m)
    ELSE OverlayResult(FALSE,
             MakeMap([k \in DOMAIN m.kv \cup DOMAIN userAttribute |->
                         IF k \in DOMAIN m.kv THEN m.kv[k] ELSE userAttribute[k]]))
\* The loop of lines 424-426: every pair of the accumulator written into m. A
\* write into the nil map panics.
Overlay(m, userAttribute) ==
    IF DOMAIN userAttribute = {} THEN OverlayResult(FALSE, m)
    ELSE IF m.nil THEN OverlayResult(TRUE, m)
    ELSE OverlayResult(FALSE,
             MakeMap([k \in DOMAIN m.kv \cup DOMAIN userAttribute |->
                         IF k \in DOMAIN userAttribute THEN userAttribute[k] ELSE m.kv[k]]))

CustomLogKey == "custom_log"
AILogKey == "ai_log"

\* proxywasm.GetProperty([]string{key}) with its error dropped: no bytes when
\* the property is absent.
GetProperty(p, key) == p[key]

\* WriteUserAttributeToLogWithKey(key) of context c on the properties p: the
\* error returned ("none" for nil, "panic" when the call does not return) and the
\* properties afterwards. setOk is the outcome of the host's SetProperty.
LogResult(err, p) == [err |-> err, props |-> p]
WriteUserAttributeToLogWithKeyResult(c, p, key, setOk) ==
    LET preMarshalledJsonLogStr == GetProperty(p, key)
        parsed == IF preMarshalledJsonLogStr # <<>>
                  THEN JsonUnmarshalMap(
                           unmarshalStr(<<Quote>> \o preMarshalledJsonLogStr \o <<Quote>>))
                  ELSE [err |-> FALSE, map |-> MakeMap(EmptyMap)]
    IN IF parsed.err THEN LogResult("Unmarshal", p)
       ELSE LET newAttributeMap == Overlay(parsed.map, c.userAttribute)
            IN IF newAttributeMap.panic THEN LogResult("panic", p)
               ELSE IF ~setOk THEN LogResult("SetProperty", p)
               ELSE LogResult("none",
                              SetProperty(p, key, marshalStr(MarshalMap(newAttributeMap.map))))

\* The contexts of the export specification: those of two plugins on one stream,
\* whose properties they share.
LogContexts == {1, 2}
LogStream == CHOOSE e \in ExchangeIds : TRUE
LogKeys == {CustomLogKey, AILogKey}
\* The pairs user code sets: a number or a string holding a quote under a, a
\* number under b.
AttrPairs ==
    {[key |-> <<"a">>, value |-> Num(<<"1">>)],
     [key |-> <<"a">>, value |-> Str(<<Quote>>)],
     [key |-> <<"b">>, value |-> Num(<<"2">>)]}
\* The pairs user code sets before an export to the trace: those, and the empty
\* string under b.
TracePairs == AttrPairs \cup {[key |-> <<"b">>, value |-> Str(<<>>)]}

\* What the log property can hold before the first export: nothing; the escaped
\* objects {} and {"b":"1"}; the object {"a":1} not escaped; null; a text that is
\* no JSON; an escaped string; an escaped object cut short.
PriorValues ==
    {<<>>,
     <<"{", "}">>,
     <<"{", Backslash, Quote, "b", Backslash, Quote, ":", Backslash, Quote, "1",
       Backslash, Quote, "}">>,
     <<"{", Quote, "a", Quote, ":", "1", "}">>,
     NullText,
     <<"x">>,
     <<Backslash, Quote, "x", Backslash, Quote>>,
     <<"{", Backslash, Quote, "a", Backslash, Quote, ":">>}

\* The record of an accumulator operation: the context, the key, the value the
\* property held before, the error returned; of an export to the trace, the
\* properties the host was asked to write and those whose write failed.
NoExport ==
    [op |-> "none", c |-> 0, key |-> "", prior |-> <<>>, err |-> "none", tags |-> {},
     failed |-> {}]
Export(op, c, key, prior, err) ==
    [NoExport EXCEPT !.op = op, !.c = c, !.key = key, !.prior = prior, !.err = err]
InitExport == export = NoExport

\* The operation writing into one attribute map shared by the live exchanges.
SetUserAttributeShared(c, pairs) ==
    /\ c \in DOMAIN http
    /\ \E a \in pairs :
          /\ http' = [x \in DOMAIN http |->
                         [http[x] EXCEPT !.userAttribute = Put(@, a.key, a.value)]]
          /\ export' = Export("SetUserAttribute", c, "", <<>>, "none")
    /\ UNCHANGED <<vm, host, obs, last, props, plVars>>
\* SetUserAttribute(key, value) with one of the pairs.
SetUserAttributeOf(c, pairs) ==
    /\ c \in DOMAIN http
    /\ \E a \in pairs :
          /\ http' = [http EXCEPT ![c].userAttribute = Put(@, a.key, a.value)]
          /\ export' = Export("SetUserAttribute", c, "", <<>>, "none")
    /\ UNCHANGED <<vm, host, obs, last, props, plVars>>
SetUserAttribute(c) == SetUserAttributeOf(c, AttrPairs)
\* SetContext(key, value) with one of the pairs (line 391).
SetContextOf(c, pairs) ==
    /\ c \in DOMAIN http
    /\ \E a \in pairs :
          /\ http' = [http EXCEPT ![c].userContext = Put(@, a.key, a.value)]
          /\ export' = Export("SetContext", c, "", <<>>, "none")
    /\ UNCHANGED <<vm, host, obs, last, props, plVars>>
SetTraceAttribute(c) == SetUserAttributeOf(c, TracePairs)

\* The host's SetProperty is reached, and can fail, only when the prior value
\* was read and the overlay did not panic.
SetOutcomes(c, p, key) ==
    IF WriteUserAttributeToLogWithKeyResult(c, p, key, TRUE).err = "none" THEN BOOLEAN ELSE {TRUE}

\* WriteUserAttributeToLogWithKey(key)
WriteUserAttributeToLogWithKey(c, key) ==
    /\ c \in DOMAIN http
    /\ \E setOk \in SetOutcomes(http[c], props[LogStream], key) :
       \E r \in {WriteUserAttributeToLogWithKeyResult(http[c], props[LogStream], key, setOk)} :
          /\ props' = [props EXCEPT ![LogStream] = r.props]
          /\ export' = Export("WriteUserAttributeToLogWithKey", c, key,
                              GetProperty(props[LogStream], key), r.err)
    /\ UNCHANGED <<vm, http, host, obs, last, plVars>>

\* WriteUserAttributeToLog(): the export under the default key.
WriteUserAttributeToLog(c) == WriteUserAttributeToLogWithKey(c, CustomLogKey)

\* fmt.Sprint(v) of an accumulator value: a string as it is, a number in digits.
Sprint(v) == v.v

\* The keys left to the loop although a write failed are none.
TraceRestAbort(keys, k, failed) == IF failed THEN {} ELSE keys \ {k}
\* The keys the loop of WriteUserAttributeToTrace goes on with after key k: a
\* failure is logged (lines 448-450) and the loop continues.
TraceRest(keys, k, failed) == keys \ {k}

\* The loop of WriteUserAttributeToTrace over the keys left: failing holds the
\* keys whose SetProperty the host refuses. The properties afterwards, the
\* properties SetProperty was called for, those it failed for.
RECURSIVE TraceLoop(_, _, _, _, _, _)
TraceLoop(userAttribute, keys, p, failing, tags, failed) ==
    IF keys = {} THEN [props |-> p, tags |-> tags, failed |-> failed]
    ELSE LET k == CHOOSE x \in keys : TRUE
             traceSpanTag == TraceSpanTagPrefix \o GoString(k)
             traceSpanValue == Sprint(userAttribute[k])
         IN IF traceSpanValue = <<>>
            THEN TraceLoop(userAttribute, TraceRest(keys, k, TRUE), p, failing, tags, failed)
            ELSE IF k \in failing
            THEN TraceLoop(userAttribute, TraceRest(keys, k, TRUE), p, failing,
                           tags \cup {traceSpanTag}, failed \cup {traceSpanTag})
            ELSE TraceLoop(userAttribute, TraceRest(keys, k, FALSE),
                           SetProperty(p, traceSpanTag, traceSpanValue), failing,
                           tags \cup {traceSpanTag}, failed)

\* WriteUserAttributeToTrace(): always returns nil.
WriteUserAttributeToTrace(c) ==
    /\ c \in DOMAIN http
    /\ \E failing \in SUBSET DOMAIN http[c].userAttribute :
       \E r \in {TraceLoop(http[c].userAttribute, DOMAIN http[c].userAttribute,
                           props[LogStream], failing, {}, {})} :
          /\ props' = [props EXCEPT ![LogStream] = r.props]
          /\ export' = [Export("WriteUserAttributeToTrace", c, "", <<>>, "none") EXCEPT
                            !.tags = r.tags, !.failed = r.failed]
    /\ UNCHANGED <<vm, http, host, obs, last, plVars>>

NextLog ==
    \E c \in LogContexts :
        \/ SetUserAttribute(c)
        \/ WriteUserAttributeToLog(c)
        \/ WriteUserAttributeToLogWithKey(c, AILogKey)

NextTrace ==
    \E c \in LogContexts :
        \/ SetTraceAttribute(c)
        \/ WriteUserAttributeToTrace(c)

\* Two contexts of a matched exchange, the log property as another filter left it.
InitLog ==
    /\ vm = [h \in HookNames |-> TRUE]
    /\ http = [c \in LogContexts |-> [NewHttpCtx(vm) EXCEPT !.config = "R"]]
    /\ host = [c \in LogContexts |-> HostAt(NewHost, "request")]
    /\ obs = [c \in LogContexts |-> [NewObs EXCEPT !.match = "match"]]
    /\ last = NoSignal
    /\ \E prior \in PriorValues :
          props = [e \in ExchangeIds |-> SetProperty(NoProps, CustomLogKey, prior)]

\* ----------------------------------------------------------- specifications
\* A plugin with nothing but its contexts; every hook registered.
IdleExchange ==
    /\ vm = [h \in HookNames |-> TRUE]
    /\ http = <<>>
    /\ host = <<>>
    /\ obs = <<>>
    /\ last = NoSignal
    /\ props = [e \in ExchangeIds |-> NoProps]

vars == <<exVars, plVars, export>>

Init == InitExchange /\ InitPlugin /\ InitExport

\* One exchange through its signals.
Spec == Init /\ [][Next]_vars

\* Attribute exports of the contexts of one stream.
LogInit == InitLog /\ InitPlugin /\ InitExport
SpecLog == LogInit /\ [][NextLog]_vars
TraceInit == InitLog /\ InitPlugin /\ InitExport
SpecTrace == TraceInit /\ [][NextTrace]_vars

\* Two exchanges of one plugin live at once, and the plugin's tick signal. The
\* plugin context has started ok on a configuration whose parser registered one
\* tick callback; the whole-body request hook is registered, and the exchanges
\* set user attributes and context values.
SharedIds == {1, 2}
SharedPairs == {a \in AttrPairs : a.value.kind = "number" /\ a.key = <<"a">>}
SharedHooks == {"onHttpRequestBody"}
SharedPlugin == CHOOSE p \in PluginIds : TRUE
SharedStart ==
    OnPluginStartResult(SharedPlugin, NewPluginCtx, Slice(<<>>), [data |-> "{}", err |-> "none"],
                        <<TickGranularity>>, 0, FALSE, TRUE)
SharedInit ==
    /\ vm = [h \in HookNames |-> h \in SharedHooks]
    /\ http = <<>>
    /\ host = <<>>
    /\ obs = <<>>
    /\ last = NoSignal
    /\ props = [e \in SharedIds |-> NoProps]
    /\ globalOnTickFuncs = SharedStart.staging
    /\ tickFuncs = Len(SharedStart.onTickFuncs)
    /\ \E now \in {t \in StartTimes : \A u \in StartTimes : t <= u} :
          plugin = [p \in PluginIds |->
                       IF p # SharedPlugin THEN NewPluginCtx
                       ELSE [NewPluginCtx EXCEPT
                                !.status = SharedStart.status,
                                !.onTickFuncs = SharedStart.onTickFuncs,
                                !.timer = SharedStart.timer,
                                !.startedAt = now, !.busyUntil = now,
                                !.fired = [i \in DOMAIN SharedStart.onTickFuncs |-> 0],
                                !.start = [read |-> "none", data |-> "{}",
                                           built |-> SharedStart.built,
                                           staged |-> Len(SharedStart.onTickFuncs),
                                           arm |-> SharedStart.arm, before |-> 0,
                                           regs |-> <<TickGranularity>>]]]
    /\ export = NoExport
NextShared ==
    \/ \E e \in SharedIds :
          \/ NewHttpContext(e)
          \/ OnHttpRequestHeaders(e)
          \/ e \in DOMAIN host /\ host[e].chunks < MaxSharedChunks /\ OnHttpRequestBody(e)
          \/ SetUserAttributeOf(e, SharedPairs)
          \/ SetContextOf(e, SharedPairs)
    \/ TotalTicks(PluginIds) < MaxSharedTicks /\ OnTick(SharedPlugin)
SpecShared == SharedInit /\ [][NextShared]_vars

\* Plugin contexts through start and ticks.
PluginInit == IdleExchange /\ InitPlugin /\ InitExport
SpecPlugin == PluginInit /\ [][NextPlugin]_vars
TimedInit == IdleExchange /\ InitPlugin /\ InitExport
SpecTimed == TimedInit /\ [][NextTimed]_vars

\* ===================================================================== claims
Exchanges == DOMAIN http
BodySignals == {"OnHttpRequestBody", "OnHttpResponseBody"}
HeaderSignals == {"OnHttpRequestHeaders", "OnHttpResponseHeaders"}
Unmatched(e) == obs[e].match \in {"nomatch", "error"}
AllHooks == \A h \in HookNames : vm[h]

\* C1: once the request-header signal of an exchange resolved no configuration
\* (no match, or a matcher error), the exchange's configuration is absent in
\* every later state, no hook of it is ever invoked, and every signal handled for
\* it returns continue.
C1_UnmatchedPassThrough ==
    \A e \in Exchanges :
        Unmatched(e) =>
            /\ http[e].config = Nil
            /\ \A h \in HookNames : obs[e].calls[h] = 0
            /\ last.e = e => last.call = NoCall /\ last.ret = ActionContinue

\* An unmatched exchange of a plugin with every hook registered that went through
\* body signals of both directions and its stream-done signal.
C1_Witness ==
    \E e \in Exchanges :
        /\ Unmatched(e) /\ AllHooks
        /\ host[e].phase = "done" /\ host[e].chunks = MaxChunks
        /\ last.sig = "OnHttpStreamDone"

\* C2 as stated: in a direction whose body signals were all handled on the
\* whole-body path, the end-of-stream signal invokes the whole-body callback
\* (exactly once in the exchange) with the concatenation of all chunks delivered.
C2_WholeBodyAlwaysInvoked ==
    \A e \in Exchanges :
        /\ (last.e = e /\ last.sig = "OnHttpRequestBody" /\ last.eos /\ obs[e].reqPure) =>
              /\ last.call.cb = "onHttpRequestBody"
              /\ last.call.body = obs[e].reqWhole
              /\ obs[e].calls["onHttpRequestBody"] = 1
        /\ (last.e = e /\ last.sig = "OnHttpResponseBody" /\ last.eos /\ obs[e].respPure) =>
              /\ last.call.cb = "onHttpResponseBody"
              /\ last.call.body = obs[e].respWhole
              /\ obs[e].calls["onHttpResponseBody"] = 1

\* C2, amended: in a direction whose body signals were all handled on the
\* whole-body path, no signal before end-of-stream invokes the whole-body
\* callback; the end-of-stream signal invokes it exactly once, with the
\* concatenation in arrival order of all chunks delivered, when the host's fetch
\* of the accumulated body succeeds, and not at all (returning continue) when
\* that fetch fails.
C2_WholeBodyFidelity ==
    \A e \in Exchanges :
        /\ obs[e].calls["onHttpRequestBody"] <= 1
        /\ obs[e].calls["onHttpResponseBody"] <= 1
        /\ host[e].phase = "request" => obs[e].calls["onHttpRequestBody"] = 0
        /\ host[e].phase = "response" => obs[e].calls["onHttpResponseBody"] = 0
        /\ (last.e = e /\ last.sig = "OnHttpRequestBody" /\ last.eos /\ obs[e].reqPure) =>
              IF last.fetch = "ok"
              THEN /\ last.call.cb = "onHttpRequestBody"
                   /\ last.call.body = obs[e].reqWhole
                   /\ obs[e].calls["onHttpRequestBody"] = 1
              ELSE /\ last.call = NoCall /\ last.ret = ActionContinue
                   /\ obs[e].calls["onHttpRequestBody"] = 0
        /\ (last.e = e /\ last.sig = "OnHttpResponseBody" /\ last.eos /\ obs[e].respPure) =>
              IF last.fetch = "ok"
              THEN /\ last.call.cb = "onHttpResponseBody"
                   /\ last.call.body = obs[e].respWhole
                   /\ obs[e].calls["onHttpResponseBody"] = 1
              ELSE /\ last.call = NoCall /\ last.ret = ActionContinue
                   /\ obs[e].calls["onHttpResponseBody"] = 0

\* The whole-body callback of the request direction received two chunks, in order.
C2_Witness ==
    \E e \in Exchanges :
        /\ last.e = e /\ last.sig = "OnHttpRequestBody" /\ last.eos /\ obs[e].reqPure
        /\ last.call.cb = "onHttpRequestBody"
        /\ last.call.body = <<1, 2>>

\* C3: every body signal handled on the streaming path invokes the direction's
\* streaming callback with exactly the signal's new bytes and end-of-stream
\* flag, and the host forwards exactly what the callback returned. It fails on
\* the code when the host's fetch fails: the error is dropped (lines 549, 595),
\* the callback is handed no bytes and what it returns replaces the chunk.
C3_StreamingAlwaysExact ==
    last.path = "streaming" =>
        /\ last.call.cb \in {"onHttpStreamingRequestBody", "onHttpStreamingResponseBody"}
        /\ last.call.body = last.chunk
        /\ last.call.eos = last.eos
        /\ last.fwd = last.call.out

StreamingHookOf(sig) ==
    IF sig = "OnHttpRequestBody" THEN "onHttpStreamingRequestBody"
    ELSE "onHttpStreamingResponseBody"

\* C4: once a direction was classified binary at its header signal, neither the
\* whole-body nor the streaming callback of that direction is ever invoked, and
\* every body signal of that direction returns continue without a callback.
C4_BinaryGuard ==
    \A e \in Exchanges :
        /\ obs[e].reqBinary =>
              /\ obs[e].calls["onHttpRequestBody"] = 0
              /\ obs[e].calls["onHttpStreamingRequestBody"] = 0
              /\ (last.e = e /\ last.sig = "OnHttpRequestBody") =>
                    last.call = NoCall /\ last.ret = ActionContinue
        /\ obs[e].respBinary =>
              /\ obs[e].calls["onHttpResponseBody"] = 0
              /\ obs[e].calls["onHttpStreamingResponseBody"] = 0
              /\ (last.e = e /\ last.sig = "OnHttpResponseBody") =>
                    last.call = NoCall /\ last.ret = ActionContinue

\* A matched exchange with a binary response, every hook registered and the
\* response-header callback invoked, whose response body reached end-of-stream.
C4_Witness ==
    \E e \in Exchanges :
        /\ AllHooks /\ obs[e].respBinary
        /\ obs[e].calls["onHttpResponseHeaders"] = 1
        /\ last.e = e /\ last.sig = "OnHttpResponseBody" /\ last.eos
        /\ last.chunk # <<>>

\* C8: on the request-header signal, a configuration R resolved by the matcher is
\* stored on the exchange; a registered request-header callback is invoked once,
\* with R, and the signal returns the action the callback returned; without a
\* callback the signal returns continue. When the matcher resolves nothing the
\* signal returns continue without a callback, and the exchange never has a
\* configuration.
C8_RequestHeaderDispatch ==
    \A e \in Exchanges :
        /\ obs[e].calls["onHttpRequestHeaders"] <= 1
        /\ Unmatched(e) => http[e].config = Nil
        /\ (last.e = e /\ last.sig = "OnHttpRequestHeaders") =>
              IF last.m # Nil
              THEN /\ http[e].config = last.m
                   /\ obs[e].match = "match"
                   /\ IF vm.onHttpRequestHeaders
                      THEN /\ last.call.cb = "onHttpRequestHeaders"
                           /\ last.call.cfg = last.m
                           /\ last.ret = last.call.act
                           /\ obs[e].calls["onHttpRequestHeaders"] = 1
                      ELSE last.call = NoCall /\ last.ret = ActionContinue
              ELSE /\ last.call = NoCall /\ last.ret = ActionContinue
                   /\ http[e].config = Nil
                   /\ Unmatched(e)

\* A matched request-header signal whose callback asked the host to pause.
C8_Witness ==
    \E e \in Exchanges :
        /\ last.e = e /\ last.sig = "OnHttpRequestHeaders" /\ last.m = "R"
        /\ last.call.cb = "onHttpRequestHeaders" /\ last.ret = ActionPause

DoneCalls(e) == obs[e].calls["onHttpStreamDone"]

\* C9: the stream-done callback is invoked only by the stream-done signal: once
\* when the configuration was resolved and the callback is registered, never
\* otherwise; and no callback of the exchange is invoked after it.
C9_StreamDoneState ==
    \A e \in Exchanges :
        /\ host[e].phase # "done" => DoneCalls(e) = 0
        /\ host[e].phase = "done" =>
              DoneCalls(e) = (IF obs[e].match = "match" /\ vm.onHttpStreamDone THEN 1 ELSE 0)
C9_NothingAfterDone ==
    \A e \in Exchanges :
        (e \in DOMAIN obs' /\ DoneCalls(e) = 1) => obs'[e].calls = obs[e].calls
C9_StreamDoneOnce == []C9_StreamDoneState /\ [][C9_NothingAfterDone]_vars

\* Stream-done invoked its callback after header and body callbacks of both
\* directions ran.
C9_Witness ==
    \E e \in Exchanges :
        /\ DoneCalls(e) = 1 /\ last.call.cb = "onHttpStreamDone"
        /\ obs[e].calls["onHttpRequestHeaders"] = 1
        /\ obs[e].calls["onHttpStreamingRequestBody"] = 1
        /\ obs[e].calls["onHttpResponseBody"] = 1

\* ------------------------------------------------------------ tick scheduler
\* The plugin contexts whose start armed the timer, and the entries of such a
\* context whose period is a positive multiple of the granularity.
Ticking == {p \in PluginIds : plugin[p].status = "ok" /\ plugin[p].timer > 0}
OnGrid(entry) == entry.tickPeriod > 0 /\ entry.tickPeriod % TickGranularity = 0
Elapsed(p) == plugin[p].ticks * plugin[p].timer

\* C5 as stated: with ticks arriving exactly every G after start, an entry whose
\* period is a positive multiple of G has fired floor(T / period) times at every
\* elapsed time T.
C5_FiredFloorOfElapsed ==
    \A p \in Ticking : \A i \in DOMAIN plugin[p].onTickFuncs :
        OnGrid(plugin[p].onTickFuncs[i]) =>
            plugin[p].fired[i] = Elapsed(p) \div plugin[p].onTickFuncs[i].tickPeriod

\* C5, amended: an entry whose period is a positive multiple of G fires on the
\* first tick after start (its last-fired timestamp 0 is compared with the wall
\* clock) and then once per period: it has not fired before the first tick, and
\* at every elapsed time T >= G it has fired 1 + floor((T - G) / period) times,
\* whatever the other entries are.
C5_TickFairness ==
    \A p \in Ticking : \A i \in DOMAIN plugin[p].onTickFuncs :
        OnGrid(plugin[p].onTickFuncs[i]) =>
            plugin[p].fired[i] =
                (IF plugin[p].ticks = 0 THEN 0
                 ELSE 1 + (Elapsed(p) - TickGranularity) \div plugin[p].onTickFuncs[i].tickPeriod)

\* A context with entries of period 300 and 200, in that order, five ticks after
\* its start: the first fired on ticks 1 and 4, the second on ticks 1, 3 and 5.
C5_Witness ==
    \E p \in Ticking :
        /\ plugin[p].ticks = 5
        /\ Len(plugin[p].onTickFuncs) = 2
        /\ plugin[p].onTickFuncs[1].tickPeriod = 300
        /\ plugin[p].onTickFuncs[2].tickPeriod = 200
        /\ plugin[p].fired = <<2, 3>>

\* --------------------------------------------------------------- plugin start
Started == {p \in PluginIds : plugin[p].status # "new"}

\* C10: OnPluginStart returns failed when the raw configuration is non-empty and
\* not valid, when the rule-set build returns an error, and when entries were
\* staged and arming the timer fails; with an empty raw configuration and a
\* successful build (and no failed arming) it returns ok; the timer is armed only
\* by a start whose parsing staged at least one entry.
C10_StartOutcome ==
    \A p \in Started :
        LET st == plugin[p].start
        IN /\ (st.data # "" /\ ~ValidBytes(st.data)) => plugin[p].status = "failed"
           /\ st.built = "error" => plugin[p].status = "failed"
           /\ (st.staged > 0 /\ st.arm = "failed") => plugin[p].status = "failed"
           /\ (st.data = "" /\ st.built = "ok" /\ st.arm # "failed") => plugin[p].status = "ok"
           /\ plugin[p].timer > 0 => st.staged > 0 /\ st.arm = "ok"
           /\ (st.built = "ok" /\ st.staged > 0) => st.arm # "none"

\* A context started ok on an empty configuration without arming the timer, after
\* an entry was registered outside any start; another failed on arming.
C10_Witness ==
    \E p, q \in Started :
        /\ plugin[p].status = "ok" /\ plugin[p].start.data = "" /\ plugin[p].timer = 0
        /\ tickFuncs > plugin[p].start.staged + plugin[q].start.staged
        /\ plugin[q].status = "failed" /\ plugin[q].start.arm = "failed"

\* ----------------------------------------------------------- attribute export
\* The object a property value denotes: the value unescaped once and parsed.
Denoted(value) ==
    IF value = <<>> THEN [err |-> FALSE, map |-> MakeMap(EmptyMap)]
    ELSE JsonUnmarshalMap(unmarshalStr(<<Quote>> \o value \o <<Quote>>))
HoldsObject(value) == ~Denoted(value).err /\ ~Denoted(value).map.nil
Exported == export.op = "WriteUserAttributeToLogWithKey"

\* C6: after an export to the log under a key that returned no error, where the
\* property was absent, empty or held an object, the property holds an object
\* whose keys are those of the object held before and those of the accumulator,
\* each with the accumulator's value where the accumulator has the key and with
\* the value held before otherwise.
C6_ExportMerges ==
    (Exported /\ export.err = "none" /\ HoldsObject(export.prior)) =>
        LET before == Denoted(export.prior).map.kv
            attrs == http[export.c].userAttribute
            stored == Denoted(props[LogStream][export.key])
        IN /\ HoldsObject(props[LogStream][export.key])
           /\ DOMAIN stored.map.kv = DOMAIN before \cup DOMAIN attrs
           /\ \A k \in DOMAIN stored.map.kv :
                 stored.map.kv[k] = (IF k \in DOMAIN attrs THEN attrs[k] ELSE before[k])

\* One context exported {a:1} into the absent property and the other then
\* exported {b:2}: the property holds {\"a\":1,\"b\":2}.
C6_Witness ==
    /\ Exported /\ export.err = "none" /\ export.c = 2 /\ export.key = CustomLogKey
    /\ http[1].userAttribute = Put(EmptyMap, <<"a">>, Num(<<"1">>))
    /\ http[2].userAttribute = Put(EmptyMap, <<"b">>, Num(<<"2">>))
    /\ export.prior = <<"{", Backslash, Quote, "a", Backslash, Quote, ":", "1", "}">>
    /\ props[LogStream][CustomLogKey] =
           <<"{", Backslash, Quote, "a", Backslash, Quote, ":", "1", ",",
             Backslash, Quote, "b", Backslash, Quote, ":", "2", "}">>

\* C7: an export to the log whose property holds a non-empty value that is not
\* an object returns the parse error and changes neither the property nor the
\* accumulator.
C7_ExportStep ==
    (export'.op = "WriteUserAttributeToLogWithKey"
        /\ props[LogStream][export'.key] # <<>>
        /\ ~HoldsObject(props[LogStream][export'.key])) =>
            /\ export'.err = "Unmarshal"
            /\ props' = props
            /\ http' = http
C7_MalformedPriorRejected == [][C7_ExportStep]_vars

\* ------------------------------------------------- start: what a failure leaves
\* The callbacks registered while context p's OnPluginStart ran, and the
\* callbacks of the entries the staging slice holds.
OwnCallbacks(p) ==
    (plugin[p].start.before + 1) .. (plugin[p].start.before + plugin[p].start.staged)
StagedCallbacks ==
    {globalOnTickFuncs.entries[i].tickFunc : i \in DOMAIN globalOnTickFuncs.entries}

\* C11 as stated: a start yields ok or failed, and after a failed start the
\* context's tick entry list is empty and the staging slice holds no entry that
\* start staged, whichever step failed.
C11_StartAllOrNothing ==
    \A p \in Started :
        /\ plugin[p].status \in {"ok", "failed"}
        /\ plugin[p].status = "failed" =>
              /\ plugin[p].onTickFuncs = <<>>
              /\ OwnCallbacks(p) \cap StagedCallbacks = {}

\* ------------------------------------------------ the resolved configuration
\* C13: an exchange has no configuration until its request-header signal
\* resolved one, and has the resolved one from then on; the configuration
\* changes only from absent to the one the matcher resolved, in the step of the
\* request-header signal of that exchange: no other signal and no context
\* operation made by a callback changes or clears it, and no signal but the
\* request-header one has a matcher result.
C13_ConfigState ==
    /\ \A e \in Exchanges :
          IF obs[e].match = "match" THEN http[e].config \in Configs ELSE http[e].config = Nil
    /\ last.sig # "OnHttpRequestHeaders" => last.m = Nil
C13_ConfigStep ==
    \A e \in Exchanges :
        http'[e].config # http[e].config =>
            /\ http[e].config = Nil
            /\ last'.e = e /\ last'.sig = "OnHttpRequestHeaders"
            /\ last'.m \in Configs /\ http'[e].config = last'.m
C13_ConfigSetOnce == []C13_ConfigState /\ [][C13_ConfigStep]_vars

\* A matched exchange whose callbacks ran on the request body and the response
\* headers and made a context operation, after its stream-done signal: the
\* configuration is the resolved one.
C13_Witness ==
    \E e \in Exchanges :
        /\ last.e = e /\ last.sig = "OnHttpStreamDone" /\ last.call.cfg = "R"
        /\ http[e].config = "R" /\ obs[e].ops > 0
        /\ obs[e].calls["onHttpStreamingRequestBody"] > 0
        /\ obs[e].calls["onHttpResponseHeaders"] > 0

\* ------------------------------------------------------ whole-body pause / resume
WholeHookOf(sig) == IF sig = "OnHttpRequestBody" THEN "onHttpRequestBody" ELSE "onHttpResponseBody"
BodyHooks == {"onHttpRequestBody", "onHttpStreamingRequestBody",
              "onHttpResponseBody", "onHttpStreamingResponseBody"}
SignalOfHook(h) ==
    IF h \in {"onHttpRequestBody", "onHttpStreamingRequestBody"} THEN "OnHttpRequestBody"
    ELSE "OnHttpResponseBody"
WholeSignal == last.sig \in BodySignals /\ last.path = "whole"

\* C16 as stated: on the whole-body path a body signal that is not end-of-stream
\* returns pause without a callback, and the end-of-stream signal invokes the
\* whole-body callback and returns exactly the action it returned.
C16_EndOfStreamReturnsCallbackAction ==
    WholeSignal =>
        IF ~last.eos THEN last.ret = ActionPause /\ last.call = NoCall
        ELSE last.call.cb = WholeHookOf(last.sig) /\ last.ret = last.call.act

\* C16, amended: on the whole-body path a body signal that is not end-of-stream
\* returns pause without a callback or a fetch, and the host keeps the bytes; the
\* end-of-stream signal returns the action of the whole-body callback when the
\* fetch of the accumulated body succeeds and continue without a callback when
\* it fails, so after end-of-stream the exchange is paused only if the callback
\* answered pause.
C16_WholeBodyState ==
    WholeSignal =>
        IF ~last.eos
        THEN /\ last.ret = ActionPause /\ last.call = NoCall /\ last.fetch = "none"
             /\ host[last.e].buffering /\ host[last.e].buf = last.fwd
        ELSE /\ IF last.fetch = "ok"
                THEN last.call.cb = WholeHookOf(last.sig) /\ last.ret = last.call.act
                ELSE last.call = NoCall /\ last.ret = ActionContinue
             /\ host[last.e].buffering <=> (last.call.cb # "none" /\ last.call.act = ActionPause)
\* A body callback of an exchange is invoked only in the step of a body-available
\* signal of that exchange and direction; of a paused exchange as of any other.
C16_BodyLogicStep ==
    \A e \in Exchanges : \A h \in BodyHooks :
        obs'[e].calls[h] # obs[e].calls[h] =>
            /\ last'.e = e /\ last'.sig = SignalOfHook(h) /\ last'.call.cb = h
            /\ obs'[e].calls[h] = obs[e].calls[h] + 1
C16_WholeBodyPauseResume == []C16_WholeBodyState /\ [][C16_BodyLogicStep]_vars

\* A response paused on its first chunk whose end-of-stream signal handed both
\* chunks to the whole-body callback and returned the pause the callback answered.
C16_Witness ==
    \E e \in Exchanges :
        /\ last.e = e /\ last.sig = "OnHttpResponseBody" /\ last.path = "whole" /\ last.eos
        /\ obs[e].respPure /\ obs[e].respWhole = <<1, 2>>
        /\ last.call.cb = "onHttpResponseBody" /\ last.call.body = <<1, 2>>
        /\ last.call.act = ActionPause /\ last.ret = ActionPause

\* ------------------------------------------------------- host failures on a body
\* The bytes the host held for the body signal handled last, before the handler
\* ran: the new chunk on the streaming path, the chunks kept so far on the
\* whole-body path.
WholeBytes(e, sig) == IF sig = "OnHttpRequestBody" THEN obs[e].reqWhole ELSE obs[e].respWhole
BodyBefore == IF last.path = "streaming" THEN last.chunk ELSE WholeBytes(last.e, last.sig)

\* C17: a body-available signal during which the host's body fetch fails
\* (streaming or whole-body path) or the host's body replace fails (streaming
\* path) returns continue and leaves the host with the bytes it held for that
\* signal.
C17_HostFailurePassThrough ==
    (last.sig \in BodySignals /\ (last.fetch = "failed" \/ last.replace = "failed")) =>
        /\ last.ret = ActionContinue
        /\ last.fwd = BodyBefore

\* ------------------------------------------------ body modes and their precedence
\* The flags of exchange e for the direction of body signal sig.
NeedBody(c, sig) == IF sig = "OnHttpRequestBody" THEN c.needRequestBody ELSE c.needResponseBody
StreamingBody(c, sig) ==
    IF sig = "OnHttpRequestBody" THEN c.streamingRequestBody ELSE c.streamingResponseBody

\* C18: a new exchange needs the body of a direction iff a whole-body or a
\* streaming callback of that direction is registered, and streams it iff a
\* streaming callback is registered. A body signal of a matched exchange that
\* needs the body invokes the streaming callback when it is registered and the
\* streaming flag is set, and then never the whole-body callback; takes the
\* whole-body path only otherwise and when a whole-body callback is registered;
\* and with neither returns continue without a callback.
C18_ModeAtCreation ==
    last.sig = "NewHttpContext" =>
        LET c == http[last.e]
        IN /\ c.needRequestBody <=> (vm.onHttpRequestBody \/ vm.onHttpStreamingRequestBody)
           /\ c.needResponseBody <=> (vm.onHttpResponseBody \/ vm.onHttpStreamingResponseBody)
           /\ c.streamingRequestBody <=> vm.onHttpStreamingRequestBody
           /\ c.streamingResponseBody <=> vm.onHttpStreamingResponseBody
C18_PrecedenceStep ==
    \A e \in Exchanges :
        (host'[e].chunks = host[e].chunks + 1 /\ http[e].config # Nil
            /\ NeedBody(http[e], last'.sig)) =>
            /\ last'.e = e /\ last'.sig \in BodySignals
            /\ IF vm[StreamingHookOf(last'.sig)] /\ StreamingBody(http[e], last'.sig)
               THEN /\ last'.path = "streaming"
                    /\ last'.call.cb = StreamingHookOf(last'.sig)
                    /\ obs'[e].calls[WholeHookOf(last'.sig)] = obs[e].calls[WholeHookOf(last'.sig)]
               ELSE IF vm[WholeHookOf(last'.sig)]
               THEN /\ last'.path = "whole"
                    /\ last'.call.cb \in {"none", WholeHookOf(last'.sig)}
               ELSE /\ last'.path = "nohook"
                    /\ last'.call = NoCall /\ last'.ret = ActionContinue
C18_BodyModes == []C18_ModeAtCreation /\ [][C18_PrecedenceStep]_vars

\* With every hook registered, the response body reached end-of-stream on the
\* streaming path: the streaming callback ran on each chunk, the whole-body
\* callback never.
C18_Witness ==
    \E e \in Exchanges :
        /\ AllHooks /\ last.e = e /\ last.sig = "OnHttpResponseBody" /\ last.eos
        /\ last.path = "streaming" /\ last.call.cb = "onHttpStreamingResponseBody"
        /\ obs[e].calls["onHttpStreamingResponseBody"] = 2
        /\ obs[e].calls["onHttpResponseBody"] = 0

\* --------------------------------------------------------- one tick, entry by entry
\* Context p handles a tick in this step; entry i fires in it.
Ticked(p) == plugin'[p].ticks = plugin[p].ticks + 1
Fires(p, i) == plugin'[p].fired[i] = plugin[p].fired[i] + 1
\* The callbacks of the entries among the first n that fire in this step, in
\* registration order.
RECURSIVE FiringCallbacks(_, _)
FiringCallbacks(p, n) ==
    IF n = 0 THEN <<>>
    ELSE FiringCallbacks(p, n - 1) \o
         (IF Fires(p, n) THEN <<plugin[p].onTickFuncs[n].tickFunc>> ELSE <<>>)
\* What C14 says of every entry in a tick: every entry is evaluated, at a clock
\* reading not before the previous entry's; it fires iff that reading minus its
\* last-fired timestamp is at least its period; a firing entry's timestamp
\* becomes the reading and another's is unchanged; the callbacks run in
\* registration order.
TickRule(p) ==
    LET before == plugin[p].onTickFuncs
        after == plugin'[p].onTickFuncs
        nows == plugin'[p].tick.nows
    IN /\ Len(nows) = Len(before) /\ Len(after) = Len(before)
       /\ \A i \in DOMAIN before :
             /\ i > 1 => nows[i] >= nows[i - 1]
             /\ Fires(p, i) <=> (nows[i] - before[i].lastExecuted >= before[i].tickPeriod)
             /\ ~Fires(p, i) => plugin'[p].fired[i] = plugin[p].fired[i]
             /\ after[i] = [before[i] EXCEPT
                               !.lastExecuted = IF Fires(p, i) THEN nows[i] ELSE @]
       /\ plugin'[p].tick.calls = FiringCallbacks(p, Len(before))

\* C14 as stated: every tick follows the rule, and an entry whose period is
\* below the granularity fires on every tick.
C14_TickStepAsStated ==
    \A p \in PluginIds :
        Ticked(p) =>
            /\ TickRule(p)
            /\ \A i \in DOMAIN plugin[p].onTickFuncs :
                  plugin[p].onTickFuncs[i].tickPeriod < TickGranularity => Fires(p, i)
C14_SubGranularityEveryTick == [][C14_TickStepAsStated]_vars

\* C14, amended: every tick follows the rule, and an entry whose period is below
\* the granularity fires on every tick delivered at least its period after the
\* handling of the previous tick returned.
C14_TickStep ==
    \A p \in PluginIds :
        Ticked(p) =>
            /\ TickRule(p)
            /\ \A i \in DOMAIN plugin[p].onTickFuncs :
                  (/\ plugin[p].onTickFuncs[i].tickPeriod < TickGranularity
                   /\ plugin'[p].tick.nows[1] - plugin[p].busyUntil
                          >= plugin[p].onTickFuncs[i].tickPeriod) => Fires(p, i)
C14_TickEvaluation == [][C14_TickStep]_vars

\* A context with entries of period 200 and 50, in that order, after its second
\* tick: on the first both fired, the second entry later than the first; the
\* second tick evaluated both and fired neither, the entry of period 50 having
\* fired less than 50 before.
C14_Witness ==
    \E p \in Ticking :
        /\ plugin[p].ticks = 2 /\ Len(plugin[p].onTickFuncs) = 2
        /\ plugin[p].onTickFuncs[1].tickPeriod = 200
        /\ plugin[p].onTickFuncs[2].tickPeriod = 50
        /\ plugin[p].fired = <<1, 1>>
        /\ Len(plugin[p].tick.nows) = 2 /\ plugin[p].tick.calls = <<>>
        /\ plugin[p].onTickFuncs[2].lastExecuted > plugin[p].onTickFuncs[1].lastExecuted

\* ---------------------------------------------------- capture of the staged entries
StartedOk == {p \in PluginIds : plugin[p].status = "ok"}
\* Context p holds the entries its own parse registered, in registration order,
\* each once: callback and period as registered.
HoldsOwnEntries(p) ==
    LET st == plugin[p].start
    IN /\ Len(plugin[p].onTickFuncs) = st.staged
       /\ \A i \in DOMAIN plugin[p].onTickFuncs :
             /\ plugin[p].onTickFuncs[i].tickFunc = st.before + i
             /\ plugin[p].onTickFuncs[i].tickPeriod = st.regs[i]

\* C15 as stated: after a successful start the context holds the entries of its
\* own parse, in registration order, and the staging slice holds none of them.
C15_StagingClearedAtCapture ==
    \A p \in StartedOk :
        /\ HoldsOwnEntries(p)
        /\ OwnCallbacks(p) \cap StagedCallbacks = {}

\* C15, amended: the staging slice is cleared when a start begins, before its
\* parse, and not after the capture: every entry it holds was registered after
\* the latest start began. Across starts and registrations, a context started
\* ok holds exactly the entries its own parse registered, in registration order,
\* each once, whatever is registered afterwards.
C15_CaptureOwnEntries ==
    /\ \A p \in StartedOk : HoldsOwnEntries(p)
    /\ \A p \in Started : \A f \in StagedCallbacks : f > plugin[p].start.before

\* A context started ok with the one entry its parse registered, ticked since,
\* while a registration made after its start sits in the staging slice next to
\* that entry: the context's list is the one entry still.
C15_Witness ==
    \E p \in StartedOk :
        /\ plugin[p].start.before = 0 /\ plugin[p].start.staged = 1
        /\ Len(plugin[p].onTickFuncs) = 1 /\ plugin[p].ticks > 0
        /\ StagedCallbacks = {1, 2}

\* ----------------------------------------------------- export after export
\* C20: when an export to the log under a key returned no error, the value it
\* left in the property holds an object, and the next export under that key
\* reads it back without a parse error; made by the same context, whose
\* accumulator has not changed in between, that next export leaves the property
\* exactly as the first left it.
C20_ExportStep ==
    (/\ export.op = "WriteUserAttributeToLogWithKey" /\ export.err = "none"
     /\ export'.op = "WriteUserAttributeToLogWithKey" /\ export'.key = export.key) =>
        /\ HoldsObject(props[LogStream][export.key])
        /\ export'.err \in {"none", "SetProperty"}
        /\ export'.c = export.c => props' = props
C20_ExportTwice == [][C20_ExportStep]_vars

\* ------------------------------------------------------------ export to the trace
TraceTag(k) == TraceSpanTagPrefix \o GoString(k)
Traced == export.op = "WriteUserAttributeToTrace"

\* C19: an export to the trace returns nil and leaves the accumulator as it was;
\* the host is asked to write the property trace_span_tag.<key> for exactly the
\* keys of the accumulator whose value prints as a non-empty string, whether or
\* not another key's value is empty or another key's write failed; each such
\* property holds the printed value unless its own write failed, and no other
\* property changes.
C19_TraceStep ==
    export'.op = "WriteUserAttributeToTrace" =>
        LET attrs == http[export'.c].userAttribute
            p == props[LogStream]
        IN /\ http' = http
           /\ export'.err = "none"
           /\ export'.tags = {TraceTag(k) : k \in {x \in DOMAIN attrs : Sprint(attrs[x]) # <<>>}}
           /\ export'.failed \subseteq export'.tags
           /\ \A k \in DOMAIN attrs :
                 props'[LogStream][TraceTag(k)] =
                     (IF TraceTag(k) \in export'.tags \ export'.failed THEN Sprint(attrs[k])
                      ELSE p[TraceTag(k)])
           /\ \A x \in DOMAIN p : (\A k \in DOMAIN attrs : x # TraceTag(k)) =>
                 props'[LogStream][x] = p[x]
C19_TracePartialFailure == [][C19_TraceStep]_vars

\* An export of {a: 1, b: 2} where the write for a failed: the host was asked
\* for both properties and holds 2 under trace_span_tag.b, nothing under
\* trace_span_tag.a.
C19_Witness ==
    /\ Traced
    /\ http[export.c].userAttribute =
           Put(Put(EmptyMap, <<"a">>, Num(<<"1">>)), <<"b">>, Num(<<"2">>))
    /\ export.tags = {"trace_span_tag.a", "trace_span_tag.b"}
    /\ export.failed = {"trace_span_tag.a"}
    /\ props[LogStream]["trace_span_tag.a"] = <<>>
    /\ props[LogStream]["trace_span_tag.b"] = <<"2">>

\* ------------------------------------------------- exchanges next to each other
\* Exchange a handles a signal in this step: its context is created, or the
\* signal or accumulator operation recorded is one of a, or its host state moves.
Acting(a) ==
    \/ a \notin DOMAIN http
    \/ last' # last /\ last'.e = a
    \/ export' # export /\ export'.c = a
    \/ host'[a] # host[a]

\* C12: a step in which exchange a handles a signal leaves the context of every
\* other live exchange as it was (configuration, body flags, byte counters,
\* key-value map, attribute map), and leaves the registered hooks, the staging
\* slice and the plugin contexts with their tick entries as they were; no step
\* changes the contexts of two exchanges; a tick entry's last-fired timestamp
\* changes only in a step in which its plugin context handles a tick, and that
\* step leaves every exchange context as it was; the same holds of the entries
\* seen through the staging slice, which change only with the tick of the
\* context sharing their backing array.
C12_IsolationStep ==
    /\ \A a \in DOMAIN http' :
          Acting(a) =>
              /\ \A b \in DOMAIN http \ {a} : http'[b] = http[b]
              /\ vm' = vm /\ plugin' = plugin /\ globalOnTickFuncs' = globalOnTickFuncs
    /\ \A a, b \in DOMAIN http :
          http'[a] # http[a] /\ http'[b] # http[b] => a = b
    /\ http' # http =>
          vm' = vm /\ plugin' = plugin /\ globalOnTickFuncs' = globalOnTickFuncs
    /\ \A p \in PluginIds :
          \A i \in DOMAIN plugin[p].onTickFuncs \cap DOMAIN plugin'[p].onTickFuncs :
              plugin'[p].onTickFuncs[i].lastExecuted # plugin[p].onTickFuncs[i].lastExecuted =>
                  /\ Ticked(p)
                  /\ http' = http
    /\ \A i \in DOMAIN globalOnTickFuncs.entries \cap DOMAIN globalOnTickFuncs'.entries :
          globalOnTickFuncs'.entries[i].lastExecuted # globalOnTickFuncs.entries[i].lastExecuted =>
              /\ globalOnTickFuncs.sharedWith \in PluginIds
              /\ Ticked(globalOnTickFuncs.sharedWith)
              /\ http' = http
C12_ExchangeIsolation == [][C12_IsolationStep]_vars
\* Two matched exchanges are live with contexts that differ in byte counter,
\* attribute map and key-value map, the last signal handled was a body chunk of
\* the one with the smaller counter, and the tick callback has fired, its
\* timestamp showing through the staging slice as well.
C12_Witness ==
    /\ DOMAIN http = SharedIds
    /\ \E a, b \in SharedIds :
          /\ a # b
          /\ http[a].config # Nil /\ http[b].config # Nil
          /\ http[a].requestBodySize > 0
          /\ DOMAIN http[a].userAttribute # {} /\ DOMAIN http[b].userAttribute = {}
          /\ last.e = b /\ last.sig = "OnHttpRequestBody"
          /\ http[b].requestBodySize = 0
          /\ DOMAIN http[a].userContext = {} /\ DOMAIN http[b].userContext # {}
    /\ \E i \in DOMAIN plugin[SharedPlugin].onTickFuncs :
          /\ plugin[SharedPlugin].fired[i] > 0
          /\ plugin[SharedPlugin].onTickFuncs[i].lastExecuted > plugin[SharedPlugin].startedAt
          /\ globalOnTickFuncs.entries[i].lastExecuted
                 = plugin[SharedPlugin].onTickFuncs[i].lastExecuted

\* ------------------------------------------------------------ the body flags
FlagNames == {"needRequestBody", "needResponseBody", "streamingRequestBody",
              "streamingResponseBody"}
\* Context d is context c with the flags of cleared set to false and nothing else changed.
ClearedOnly(c, d, cleared) ==
    d = [f \in DOMAIN c |-> IF f \in cleared THEN FALSE ELSE c[f]]
FlagOfOp(op) ==
    CASE op = "DontReadRequestBody" -> {"needRequestBody"}
      [] op = "DontReadResponseBody" -> {"needResponseBody"}
      [] op = "BufferRequestBody" -> {"streamingRequestBody"}
      [] op = "BufferResponseBody" -> {"streamingResponseBody"}
      [] OTHER -> {}
\* The flags of exchange e that differ between the two states of a step.
FlagsChanged(e) == {f \in FlagNames : http'[e][f] # http[e][f]}

\* C21: after creation no step sets one of the four body flags of an exchange
\* from false to true. On every context reached, DontReadRequestBody,
\* DontReadResponseBody, BufferRequestBody and BufferResponseBody each set their
\* own flag to false and change nothing else, and the binary guard of a direction
\* clears only the need-body flag of that direction, and only for a binary body.
\* A body or stream-done signal changes at most the one flag of the operation its
\* callback made; a header signal at most that and the need-body flag of its
\* direction.
C21_OwnFlagOnly ==
    \A e \in Exchanges :
        /\ \A op \in CtxOps : ClearedOnly(http[e], ApplyOp(http[e], op), FlagOfOp(op))
        /\ ClearedOnly(http[e], RequestBinaryGuard(http[e], TRUE), {"needRequestBody"})
        /\ ClearedOnly(http[e], ResponseBinaryGuard(http[e], TRUE), {"needResponseBody"})
        /\ RequestBinaryGuard(http[e], FALSE) = http[e]
        /\ ResponseBinaryGuard(http[e], FALSE) = http[e]
C21_MonotoneStep ==
    \A e \in Exchanges :
        http'[e] # http[e] =>
            LET changed == FlagsChanged(e)
            IN /\ \A f \in changed : http[e][f]
               /\ last'.sig \in BodySignals \cup {"OnHttpStreamDone"} =>
                     /\ Cardinality(changed) <= 1
                     /\ changed # {} => obs'[e].ops = obs[e].ops + 1
               /\ (last'.sig = "OnHttpRequestHeaders" /\ obs'[e].ops = obs[e].ops) =>
                     changed \subseteq {"needRequestBody"}
               /\ (last'.sig = "OnHttpResponseHeaders" /\ obs'[e].ops = obs[e].ops) =>
                     changed \subseteq {"needResponseBody"}
               /\ Cardinality(changed) <= 2
C21_FlagsMonotone == []C21_OwnFlagOnly /\ [][C21_MonotoneStep]_vars
\* With every hook registered, the request direction was switched off by the
\* binary guard and the response direction switched to buffered by a callback;
\* the response body then reached end-of-stream on the whole-body path.
C21_Witness ==
    \E e \in Exchanges :
        /\ AllHooks /\ obs[e].reqBinary /\ ~obs[e].respBinary /\ obs[e].ops > 0
        /\ ~http[e].needRequestBody /\ http[e].streamingRequestBody
        /\ http[e].needResponseBody /\ ~http[e].streamingResponseBody
        /\ last.e = e /\ last.sig = "OnHttpResponseBody" /\ last.eos /\ last.path = "whole"

\* ---------------------------------------------------------- the byte counters
BodySizeOf(c, sig) == IF sig = "OnHttpRequestBody" THEN c.requestBodySize ELSE c.responseBodySize
\* A body-available signal of exchange e is handled in this step.
BodyHandled(e) == host'[e].chunks = host[e].chunks + 1

\* C22: the running byte counter of each direction is the sum of the sizes of
\* the body-available signals of that direction handled on the whole-body path.
\* A body-available signal handled on the whole-body path adds its size to the
\* counter of its direction; one handled while the exchange is unmatched, while
\* the body is not needed, on the streaming path or with no callback leaves both
\* counters as they were, and so does every other signal. The body handed to
\* the whole-body callback at end-of-stream is no longer than that counter.
C22_CounterIsWholeBytes ==
    \A e \in Exchanges :
        /\ http[e].requestBodySize = Len(obs[e].reqWhole)
        /\ http[e].responseBodySize = Len(obs[e].respWhole)
        /\ (last.e = e /\ last.sig \in BodySignals /\ last.path = "whole"
                /\ last.call.cb # "none") =>
              Len(last.call.body) <= BodySizeOf(http[e], last.sig)
C22_CounterStep ==
    \A e \in Exchanges :
        IF BodyHandled(e) /\ last'.path = "whole"
        THEN /\ BodySizeOf(http'[e], last'.sig) = BodySizeOf(http[e], last'.sig) + Len(last'.chunk)
             /\ \A sig \in BodySignals \ {last'.sig} :
                   BodySizeOf(http'[e], sig) = BodySizeOf(http[e], sig)
        ELSE /\ http'[e].requestBodySize = http[e].requestBodySize
             /\ http'[e].responseBodySize = http[e].responseBodySize
C22_ByteCounter == []C22_CounterIsWholeBytes /\ [][C22_CounterStep]_vars
\* The streaming request callback took the first chunk and switched the
\* direction to buffered; the second chunk reached end-of-stream on the
\* whole-body path, where the counter holds the size of that chunk alone and the
\* whole-body callback was handed that chunk alone.
C22_Witness ==
    \E e \in Exchanges :
        /\ last.e = e /\ last.sig = "OnHttpRequestBody" /\ last.eos /\ last.path = "whole"
        /\ obs[e].calls["onHttpStreamingRequestBody"] = 1
        /\ ~obs[e].reqPure /\ obs[e].reqWhole = <<2>>
        /\ http[e].requestBodySize = 1
        /\ last.call.cb = "onHttpRequestBody" /\ last.call.body = <<2>>

====
